---- MODULE Spec2Model ----
(***************************************************************************)
(* Execution pricer and payoff calculator of Arbiter.                      *)
(*                                                                         *)
(* Numbers.  The program computes with JavaScript numbers.  Contract       *)
(* counts (level sizes, trade sizes) are modelled as integers; every       *)
(* quantity that involves a price is an exact rational [num, den] in       *)
(* lowest terms with den > 0, in the program's own unit (a price of 0.40   *)
(* is 2/5).  Rounding of IEEE doubles is not modelled.                     *)
(***************************************************************************)
EXTENDS Integers, Sequences, FiniteSets, TLC

VARIABLES
    pc,          \* position of the caller in the flow of its specification
    \* simulate-trade: price an order, compute its payoff
    book,        \* the OrderBook object handed to the pricer (bids, asks)
    input,       \* the TradeInput of the request
    result,      \* ExecutionResult of the first calculateExecutionPrice call
    result2,     \* ExecutionResult of a second call with the same arguments
    payoff,      \* PayoffResult of calculatePayoff(result)
    \* Kelly sizing
    kellyArgs,   \* arguments of calculateKellyFraction
    kellyOut,    \* its return value {fraction, edge}
    \* market comparison
    marketA,     \* MarketOrderBooks of the first market (yes, no)
    marketB,     \* MarketOrderBooks of the second market
    tradeSize,   \* size compareMarkets simulates
    comparison,  \* MarketComparisonResult
    \* the two size searches, one loop iteration per step
    searchArgs,  \* the books and initialEdge the search runs on
    search,      \* locals of the while loop of findMaxViableArbSize
    scan,        \* locals of the for loop of findArbExhaustionPoint
    \* slippage bound solver
    tolerance,   \* maxSlippagePercent
    slipOut,     \* {maxSize, priceAtMax}
    \* discrepancy engine
    markets,     \* the NormalizedMarket list handed to detectDiscrepancies
    discOut,      \* the DiscrepancyResult list it resolves to
    \* CLOB adapter
    payload,     \* what the exchange answers to the adapter's requests
    fetched,     \* what fetchOrderBook / fetchMarketOrderBooks gives back
    \* request handlers
    request,     \* the JSON body of a POST request
    response,    \* the handler's answer and the core calls it made
    \* book analysis
    bookAnalysis \* OrderBookAnalysis of analyzeOrderBook(book)

pricerVars == <<book, input, result, result2, payoff>>
kellyVars == <<kellyArgs, kellyOut>>
compareVars == <<marketA, marketB, tradeSize, comparison>>
searchVars == <<searchArgs, search, scan>>
slipVars == <<tolerance, slipOut>>
discVars == <<markets, discOut>>
fetchVars == <<payload, fetched>>
routeVars == <<request, response>>
analyzeVars == <<bookAnalysis>>

vars == <<pc, pricerVars, kellyVars, compareVars, searchVars, slipVars, discVars,
          fetchVars, routeVars, analyzeVars>>

----------------------------------------------------------------------------
(* Bounds of the explored inputs *)

MaxLevels == 2       \* levels in one book, bids and asks together
MaxLevelSize == 2    \* contracts resting at one level
MaxTradeSize == 5    \* contracts requested by one TradeInput

----------------------------------------------------------------------------
(* Exact rational arithmetic standing for the JavaScript number type *)

Abs(x) == IF x < 0 THEN -x ELSE x

RECURSIVE GCD(_, _)
GCD(a, b) == IF b = 0 THEN a ELSE GCD(b, a % b)

Rat(n, d) ==
    LET g == GCD(Abs(n), Abs(d))
        s == IF d < 0 THEN -1 ELSE 1
    IN  [num |-> (s * n) \div g, den |-> (s * d) \div g]

R(k) == [num |-> k, den |-> 1]
Zero == R(0)
One == R(1)
Hundred == R(100)

RAdd(a, b) == Rat(a.num * b.den + b.num * a.den, a.den * b.den)
RSub(a, b) == Rat(a.num * b.den - b.num * a.den, a.den * b.den)
RMul(a, b) == Rat(a.num * b.num, a.den * b.den)
RDiv(a, b) == Rat(a.num * b.den, a.den * b.num)
RNeg(a) == [num |-> -a.num, den |-> a.den]
RAbs(a) == [num |-> Abs(a.num), den |-> a.den]
RLe(a, b) == a.num * b.den <= b.num * a.den
RLt(a, b) == a.num * b.den < b.num * a.den
RMax(a, b) == IF RLe(a, b) THEN b ELSE a
RMin(a, b) == IF RLe(a, b) THEN a ELSE b
Min(a, b) == IF a <= b THEN a ELSE b

----------------------------------------------------------------------------
(* Types of src/lib/execution-types.ts *)

TradeSide == {"BUY", "SELL"}
Outcome == {"YES", "NO"}

None == <<>>

\* The variables a specification does not use stay unset
NoPricer == book = None /\ input = None /\ result = None /\ result2 = None /\ payoff = None
NoKelly == kellyArgs = None /\ kellyOut = None
NoCompare == marketA = None /\ marketB = None /\ tradeSize = None /\ comparison = None
NoSearch == searchArgs = None /\ search = None /\ scan = None
NoSlip == tolerance = None /\ slipOut = None
NoDisc == markets = None /\ discOut = None
NoFetch == payload = None /\ fetched = None
NoRoute == request = None /\ response = None
NoAnalyze == bookAnalysis = None

----------------------------------------------------------------------------
(* calculateExecutionPrice *)

\* The state of the level walk before the first level: the locals declared
\* ahead of the for loop.  levels holds the level objects of the consumed
\* side; the spread copy shares them with the order book.
WalkInit(levels, size) ==
    [ levels        |-> levels,
      remainingSize |-> size,
      totalCost     |-> Zero,
      filledSize    |-> 0,
      fills         |-> <<>>,
      worstPrice    |-> levels[1].price ]

\* How much of the order the level fills (Math.min of the walk)
fillAtLevelOf_WholeLevel(remainingSize, level) == level.size

fillAtLevelOf(remainingSize, level) == Min(remainingSize, level.size)

\* What the fill at the level costs (BUY) or yields (SELL)
costAtLevelOf_WholeLevel(fillAtLevel, level) == RMul(R(level.size), level.price)

costAtLevelOf(fillAtLevel, level) == RMul(R(fillAtLevel), level.price)

\* The record pushed on fills; filledSize is the running total after the
\* fill of this level was added to it.
fillRecord_StaleCumulative(level, fillAtLevel, filledSize) ==
    [price |-> level.price, size |-> fillAtLevel, cumulative |-> filledSize - fillAtLevel]

fillRecord(level, fillAtLevel, filledSize) ==
    [price |-> level.price, size |-> fillAtLevel, cumulative |-> filledSize]

\* The level object after the loop body ran on it: the body only reads it.
levelAfterFill_Consumed(level, fillAtLevel) == [level EXCEPT !.size = @ - fillAtLevel]

levelAfterFill(level, fillAtLevel) == level

\* One iteration of the for loop, on the i-th level.  Once remainingSize
\* has reached 0 the loop breaks, so every later iteration changes nothing.
WalkStep(acc, i) ==
    LET level == acc.levels[i]
        fillAtLevel == fillAtLevelOf(acc.remainingSize, level)
        costAtLevel == costAtLevelOf(fillAtLevel, level)
    IN  IF acc.remainingSize <= 0 THEN acc
        ELSE IF fillAtLevel > 0
        THEN [ acc EXCEPT
                 !.totalCost     = RAdd(@, costAtLevel),
                 !.filledSize    = @ + fillAtLevel,
                 !.remainingSize = @ - fillAtLevel,
                 !.worstPrice    = level.price,
                 !.fills         = Append(@, fillRecord(level, fillAtLevel,
                                                        acc.filledSize + fillAtLevel)),
                 !.levels[i]     = levelAfterFill(level, fillAtLevel) ]
        ELSE acc

RECURSIVE WalkFrom(_, _)
WalkFrom(acc, i) ==
    IF i > Len(acc.levels) THEN acc ELSE WalkFrom(WalkStep(acc, i), i + 1)

Walk(levels, size) == WalkFrom(WalkInit(levels, size), 1)

SideLevels(orderBook, side) ==
    IF side = "BUY" THEN orderBook.asks ELSE orderBook.bids

createEmptyResult_Filled(in) ==
    [ side             |-> in.side,
      outcome          |-> in.outcome,
      requestedSize    |-> in.size,
      filledSize       |-> in.size,
      averagePrice     |-> Zero,
      totalCost        |-> Zero,
      bestPrice        |-> Zero,
      worstPrice       |-> Zero,
      slippageFromBest |-> Zero,
      slippagePercent  |-> Zero,
      fills            |-> <<>>,
      partialFill      |-> FALSE,
      remainingSize    |-> 0 ]

createEmptyResult(in) ==
    [ side             |-> in.side,
      outcome          |-> in.outcome,
      requestedSize    |-> in.size,
      filledSize       |-> 0,
      averagePrice     |-> Zero,
      totalCost        |-> Zero,
      bestPrice        |-> Zero,
      worstPrice       |-> Zero,
      slippageFromBest |-> Zero,
      slippagePercent  |-> Zero,
      fills            |-> <<>>,
      partialFill      |-> TRUE,
      remainingSize    |-> in.size ]

\* Weighted average execution price
averagePriceOf_Undivided(totalCost, filledSize) == totalCost

averagePriceOf(totalCost, filledSize) ==
    IF filledSize > 0 THEN RDiv(totalCost, R(filledSize)) ELSE Zero

\* Directional slippage from the best price
slippageFromBestOf_BuyOnly(side, averagePrice, bestPrice) == RSub(averagePrice, bestPrice)

slippageFromBestOf(side, averagePrice, bestPrice) ==
    IF side = "BUY" THEN RSub(averagePrice, bestPrice) ELSE RSub(bestPrice, averagePrice)

slippagePercentOf(slippageFromBest, bestPrice) ==
    IF RLt(Zero, bestPrice)
    THEN RMul(RDiv(slippageFromBest, bestPrice), Hundred)
    ELSE Zero

calculateExecutionPrice(orderBook, in) ==
    LET levels == SideLevels(orderBook, in.side)
    IN  IF Len(levels) = 0 THEN createEmptyResult(in)
        ELSE
        LET w == Walk(levels, in.size)
            bestPrice == levels[1].price
            averagePrice == averagePriceOf(w.totalCost, w.filledSize)
            slippageFromBest == slippageFromBestOf(in.side, averagePrice, bestPrice)
            slippagePercent == slippagePercentOf(slippageFromBest, bestPrice)
        IN  [ side             |-> in.side,
              outcome          |-> in.outcome,
              requestedSize    |-> in.size,
              filledSize       |-> w.filledSize,
              averagePrice     |-> averagePrice,
              totalCost        |-> w.totalCost,
              bestPrice        |-> bestPrice,
              worstPrice       |-> w.worstPrice,
              slippageFromBest |-> slippageFromBest,
              slippagePercent  |-> slippagePercent,
              fills            |-> w.fills,
              partialFill      |-> w.remainingSize > 0,
              remainingSize    |-> w.remainingSize ]

\* The order book object as the call leaves it: the consumed side holds the
\* level objects the walk iterated over, the other side is not touched.
bookAfterExecution(orderBook, in) ==
    LET levels == SideLevels(orderBook, in.side)
    IN  IF Len(levels) = 0 THEN orderBook
        ELSE IF in.side = "BUY"
        THEN [orderBook EXCEPT !.asks = Walk(levels, in.size).levels]
        ELSE [orderBook EXCEPT !.bids = Walk(levels, in.size).levels]

----------------------------------------------------------------------------
(* calculatePayoff *)

calculateResolutionPnL_LongOnly(side, outcome, contracts, price) ==
    IF outcome = "YES"
    THEN [ pnlIfYes |-> RMul(RSub(One, price), R(contracts)),
           pnlIfNo  |-> RMul(RNeg(price), R(contracts)) ]
    ELSE [ pnlIfYes |-> RMul(RNeg(price), R(contracts)),
           pnlIfNo  |-> RMul(RSub(One, price), R(contracts)) ]

calculateResolutionPnL(side, outcome, contracts, price) ==
    IF side = "BUY"
    THEN IF outcome = "YES"
         THEN [ pnlIfYes |-> RMul(RSub(One, price), R(contracts)),
                pnlIfNo  |-> RMul(RNeg(price), R(contracts)) ]
         ELSE [ pnlIfYes |-> RMul(RNeg(price), R(contracts)),
                pnlIfNo  |-> RMul(RSub(One, price), R(contracts)) ]
    ELSE IF outcome = "YES"
         THEN [ pnlIfYes |-> RMul(RSub(price, One), R(contracts)),
                pnlIfNo  |-> RMul(price, R(contracts)) ]
         ELSE [ pnlIfYes |-> RMul(price, R(contracts)),
                pnlIfNo  |-> RMul(RSub(price, One), R(contracts)) ]

createZeroPayoff(execution) ==
    [ side               |-> execution.side,
      outcome            |-> execution.outcome,
      contracts          |-> 0,
      entryPrice         |-> Zero,
      totalCost          |-> Zero,
      pnlIfYes           |-> Zero,
      returnIfYes        |-> Zero,
      pnlIfNo            |-> Zero,
      returnIfNo         |-> Zero,
      maxGain            |-> Zero,
      maxLoss            |-> Zero,
      capitalAtRisk      |-> Zero,
      impliedProbability |-> Zero ]

\* returnIfYes / returnIfNo: P&L as a percentage of the capital deployed
ReturnPercent_Fraction(pnl, capitalDeployed) ==
    IF RLt(Zero, capitalDeployed) THEN RDiv(pnl, capitalDeployed) ELSE Zero

ReturnPercent(pnl, capitalDeployed) ==
    IF RLt(Zero, capitalDeployed)
    THEN RMul(RDiv(pnl, capitalDeployed), Hundred)
    ELSE Zero

\* Risk metrics: best case, worst case, and the amount that can be lost
RiskMetrics_SignedRisk(pnlIfYes, pnlIfNo) ==
    [ maxGain       |-> RMax(pnlIfYes, pnlIfNo),
      maxLoss       |-> RMin(pnlIfYes, pnlIfNo),
      capitalAtRisk |-> RMin(pnlIfYes, pnlIfNo) ]

RiskMetrics(pnlIfYes, pnlIfNo) ==
    [ maxGain       |-> RMax(pnlIfYes, pnlIfNo),
      maxLoss       |-> RMin(pnlIfYes, pnlIfNo),
      capitalAtRisk |-> RAbs(RMin(pnlIfYes, pnlIfNo)) ]

calculatePayoff(execution) ==
    IF execution.filledSize = 0 THEN createZeroPayoff(execution)
    ELSE
    LET pnl == calculateResolutionPnL(execution.side, execution.outcome,
                                      execution.filledSize, execution.averagePrice)
        capitalDeployed == RAbs(execution.totalCost)
        risk == RiskMetrics(pnl.pnlIfYes, pnl.pnlIfNo)
    IN  [ side               |-> execution.side,
          outcome            |-> execution.outcome,
          contracts          |-> execution.filledSize,
          entryPrice         |-> execution.averagePrice,
          totalCost          |-> execution.totalCost,
          pnlIfYes           |-> pnl.pnlIfYes,
          returnIfYes        |-> ReturnPercent(pnl.pnlIfYes, capitalDeployed),
          pnlIfNo            |-> pnl.pnlIfNo,
          returnIfNo         |-> ReturnPercent(pnl.pnlIfNo, capitalDeployed),
          maxGain            |-> risk.maxGain,
          maxLoss            |-> risk.maxLoss,
          capitalAtRisk      |-> risk.capitalAtRisk,
          impliedProbability |-> execution.averagePrice ]

----------------------------------------------------------------------------
(* Inputs *)

\* Prices of the explored levels: 0, 0.40 and 0.60
PriceGrid == {Rat(0, 1), Rat(2, 5), Rat(3, 5)}

Levels == [price : PriceGrid, size : 0 .. MaxLevelSize]

SeqsUpTo(S, n) == UNION {[1 .. k -> S] : k \in 0 .. n}

Books ==
    {[bids |-> b, asks |-> a] :
        <<b, a>> \in {p \in SeqsUpTo(Levels, MaxLevels) \X SeqsUpTo(Levels, MaxLevels) :
                        Len(p[1]) + Len(p[2]) <= MaxLevels}}

Inputs == [side : TradeSide, outcome : Outcome, size : 0 .. MaxTradeSize]

\* The two worked scenarios of the specification
ScenarioWalk ==
    [ book  |-> [ bids |-> <<>>,
                  asks |-> << [price |-> Rat(40, 100), size |-> 50],
                              [price |-> Rat(42, 100), size |-> 100] >> ],
      input |-> [side |-> "BUY", outcome |-> "YES", size |-> 120] ]

ScenarioPayoff ==
    [ book  |-> [ bids |-> <<>>,
                  asks |-> << [price |-> Rat(40, 100), size |-> 100] >> ],
      input |-> [side |-> "BUY", outcome |-> "YES", size |-> 100] ]

\* A book as an unvalidated upstream payload can make it: an ask above 1
OverpricedRequests ==
    [ book  : { [ bids |-> <<>>, asks |-> << [price |-> Rat(6, 5), size |-> 1] >> ] },
      input : [side : {"BUY"}, outcome : Outcome, size : {1}] ]

Requests ==
    [book : Books, input : Inputs] \cup {ScenarioWalk, ScenarioPayoff} \cup OverpricedRequests

----------------------------------------------------------------------------
(* The caller: price a trade, possibly price it again, compute its payoff *)

Init ==
    /\ \E r \in Requests : book = r.book /\ input = r.input
    /\ pc = "start"
    /\ result = None
    /\ result2 = None
    /\ payoff = None
    /\ NoKelly /\ NoCompare /\ NoSearch /\ NoSlip /\ NoDisc
    /\ NoFetch /\ NoRoute /\ NoAnalyze

Price ==
    /\ pc = "start"
    /\ result' = calculateExecutionPrice(book, input)
    /\ book' = bookAfterExecution(book, input)
    /\ pc' = "priced"
    /\ UNCHANGED <<input, result2, payoff, kellyVars, compareVars, searchVars, slipVars, discVars, fetchVars, routeVars, analyzeVars>>

PriceAgain ==
    /\ pc = "priced"
    /\ result2' = calculateExecutionPrice(book, input)
    /\ book' = bookAfterExecution(book, input)
    /\ pc' = "repriced"
    /\ UNCHANGED <<input, result, payoff, kellyVars, compareVars, searchVars, slipVars, discVars, fetchVars, routeVars, analyzeVars>>

Payoff ==
    /\ pc \in {"priced", "repriced"}
    /\ payoff' = calculatePayoff(result)
    /\ pc' = "paid"
    /\ UNCHANGED <<book, input, result, result2, kellyVars, compareVars, searchVars, slipVars, discVars, fetchVars, routeVars, analyzeVars>>

Next == Price \/ PriceAgain \/ Payoff

Spec == Init /\ [][Next]_vars

----------------------------------------------------------------------------
(* Vocabulary of the properties *)

Called == pc # "start"

Ascending(levels) ==
    \A i \in 1 .. Len(levels) - 1 : RLe(levels[i].price, levels[i + 1].price)

Descending(levels) ==
    \A i \in 1 .. Len(levels) - 1 : RLe(levels[i + 1].price, levels[i].price)

PositiveSizes(levels) == \A i \in 1 .. Len(levels) : levels[i].size > 0

\* A book as the data model requires it: bids descending, asks ascending,
\* no level of size 0
WellFormedBook(b) ==
    /\ Descending(b.bids) /\ Ascending(b.asks)
    /\ PositiveSizes(b.bids) /\ PositiveSizes(b.asks)

\* Total size of the first k levels
RECURSIVE DepthUpTo(_, _)
DepthUpTo(levels, k) == IF k = 0 THEN 0 ELSE DepthUpTo(levels, k - 1) + levels[k].size

Depth(levels) == DepthUpTo(levels, Len(levels))

\* Total size and total price*size of the first k fills
RECURSIVE SizeOfFills(_, _)
SizeOfFills(f, k) == IF k = 0 THEN 0 ELSE SizeOfFills(f, k - 1) + f[k].size

RECURSIVE CostOfFills(_, _)
CostOfFills(f, k) ==
    IF k = 0 THEN Zero ELSE RAdd(CostOfFills(f, k - 1), RMul(f[k].price, R(f[k].size)))

----------------------------------------------------------------------------
(* C1: for every book and every input with size > 0 the result of
   calculateExecutionPrice has filledSize <= requestedSize and
   partialFill = (remainingSize > 0), on the empty-side path and on the
   level-walking path. *)
C1_FilledWithinRequest ==
    (Called /\ input.size > 0) =>
        /\ result.requestedSize = input.size
        /\ result.filledSize <= result.requestedSize
        /\ result.partialFill = (result.remainingSize > 0)

\* a walk that ran out of levels before the order was filled
C1_Witness ==
    /\ Called /\ input.size > 0
    /\ Len(SideLevels(book, input.side)) = 2
    /\ result.filledSize > 0
    /\ result.partialFill

(* C2: the cumulative values of fills are non-decreasing, each equals the
   sum of the sizes of the fills up to and including it, the last one is
   filledSize, and fills is empty exactly when filledSize = 0. *)
C2_FillsSumToFilled ==
    Called =>
        LET f == result.fills
        IN  /\ \A k \in 1 .. Len(f) : f[k].cumulative = SizeOfFills(f, k)
            /\ \A k \in 1 .. Len(f) - 1 : f[k].cumulative <= f[k + 1].cumulative
            /\ Len(f) > 0 => f[Len(f)].cumulative = result.filledSize
            /\ (Len(f) = 0) <=> (result.filledSize = 0)

\* two fills, the second one only part of what was requested
C2_Witness ==
    /\ Called
    /\ Len(result.fills) = 2
    /\ result.fills[1].cumulative < result.fills[2].cumulative
    /\ result.fills[2].cumulative = result.filledSize

(* C3: a BUY of 0 < size <= total ask depth on a book with at least one
   ask level, asks ascending and level sizes > 0, is filled completely:
   filledSize = size, partialFill = false, remainingSize = 0, and
   bestPrice <= averagePrice <= worstPrice. *)
C3_BuyWithinDepthFills ==
    ( /\ Called
      /\ input.side = "BUY"
      /\ Len(book.asks) >= 1
      /\ Ascending(book.asks) /\ PositiveSizes(book.asks)
      /\ 0 < input.size /\ input.size <= Depth(book.asks) ) =>
        /\ result.filledSize = input.size
        /\ result.partialFill = FALSE
        /\ result.remainingSize = 0
        /\ RLe(result.bestPrice, result.averagePrice)
        /\ RLe(result.averagePrice, result.worstPrice)

\* a BUY that crosses two ask levels of different price
C3_Witness ==
    /\ Called
    /\ input.side = "BUY"
    /\ Ascending(book.asks) /\ PositiveSizes(book.asks)
    /\ 0 < input.size /\ input.size <= Depth(book.asks)
    /\ Len(result.fills) = 2
    /\ RLt(result.bestPrice, result.averagePrice)
    /\ RLt(result.averagePrice, result.worstPrice)

(* C4: when the side selected by the input has no levels the result is the
   well-formed empty result: filledSize, averagePrice, totalCost, bestPrice,
   worstPrice and both slippages 0, fills empty, partialFill = true and
   remainingSize = requestedSize, whatever the other side holds. *)
C4_EmptySideResult ==
    (Called /\ Len(SideLevels(book, input.side)) = 0) =>
        /\ result.side = input.side
        /\ result.outcome = input.outcome
        /\ result.requestedSize = input.size
        /\ result.filledSize = 0
        /\ result.averagePrice = Zero
        /\ result.totalCost = Zero
        /\ result.bestPrice = Zero
        /\ result.worstPrice = Zero
        /\ result.slippageFromBest = Zero
        /\ result.slippagePercent = Zero
        /\ result.fills = <<>>
        /\ result.partialFill = TRUE
        /\ result.remainingSize = result.requestedSize

\* a SELL into a book without bids whose asks could have filled it
C4_Witness ==
    /\ Called
    /\ input.side = "SELL" /\ input.size > 0
    /\ Len(book.bids) = 0
    /\ Len(book.asks) > 0 /\ Depth(book.asks) >= input.size
    /\ result.filledSize = 0

(* C5: the walk is greedy and in book order.  Level i contributes
   min(what the earlier levels left of the order, level.size); the fills
   are exactly the contributions > 0, in book order; totalCost is the sum
   of price*size over the fills; filledSize + remainingSize =
   requestedSize.  Asks [(0.40,50),(0.42,100)], BUY 120 gives 50 @ 0.40
   and 70 @ 0.42, totalCost 49.4, no partial fill. *)
C5_TakeAt(levels, size, i) ==
    LET left == size - DepthUpTo(levels, i - 1)
    IN  Min(IF left > 0 THEN left ELSE 0, levels[i].size)

RECURSIVE C5_GreedyFills(_, _, _)
C5_GreedyFills(levels, size, k) ==
    IF k = 0 THEN <<>>
    ELSE LET before == C5_GreedyFills(levels, size, k - 1)
             take == C5_TakeAt(levels, size, k)
         IN  IF take > 0
             THEN Append(before, [price |-> levels[k].price, size |-> take])
             ELSE before

C5_GreedyWalk ==
    Called =>
        LET levels == SideLevels(book, input.side)
            f == result.fills
        IN  /\ [k \in 1 .. Len(f) |-> [price |-> f[k].price, size |-> f[k].size]]
                 = C5_GreedyFills(levels, input.size, Len(levels))
            /\ \A i, j \in 1 .. Len(levels) :
                 (i < j /\ C5_TakeAt(levels, input.size, j) > 0)
                     => C5_TakeAt(levels, input.size, i) = levels[i].size
            /\ result.totalCost = CostOfFills(f, Len(f))
            /\ result.filledSize = SizeOfFills(f, Len(f))
            /\ result.filledSize + result.remainingSize = result.requestedSize
            /\ (book = ScenarioWalk.book /\ input = ScenarioWalk.input) =>
                 /\ f = << [price |-> Rat(40, 100), size |-> 50, cumulative |-> 50],
                           [price |-> Rat(42, 100), size |-> 70, cumulative |-> 120] >>
                 /\ result.totalCost = Rat(494, 10)
                 /\ result.filledSize = 120
                 /\ result.partialFill = FALSE

\* the worked scenario has been priced
C5_Witness ==
    /\ Called
    /\ book = ScenarioWalk.book /\ input = ScenarioWalk.input
    /\ Len(result.fills) = 2
    /\ result.fills[2].size < book.asks[2].size

(* C6: a second call of calculateExecutionPrice with the same book and the
   same input returns a result identical to the first, and no call changes
   the bids or asks of the book. *)
C6_RepeatableAndReadOnly ==
    [][ /\ book' = book
        /\ pc' = "repriced" => result2' = result' ]_vars

\* the second call of an order that consumed liquidity has returned
C6_Witness ==
    /\ pc = "repriced"
    /\ result.filledSize > 0
    /\ result2.filledSize > 0

(* C7: slippageFromBest = averagePrice - bestPrice for BUY and
   bestPrice - averagePrice for SELL; slippagePercent =
   slippageFromBest / bestPrice * 100, and 0 when bestPrice = 0; on every
   well-formed book and for every size > 0 both are >= 0. *)
C7_SlippageSign ==
    Called =>
        /\ result.slippageFromBest =
              IF input.side = "BUY"
              THEN RSub(result.averagePrice, result.bestPrice)
              ELSE RSub(result.bestPrice, result.averagePrice)
        /\ result.bestPrice = Zero => result.slippagePercent = Zero
        /\ result.bestPrice # Zero =>
              RMul(result.slippagePercent, result.bestPrice)
                  = RMul(result.slippageFromBest, Hundred)
        /\ (WellFormedBook(book) /\ input.size > 0) =>
              /\ RLe(Zero, result.slippageFromBest)
              /\ RLe(Zero, result.slippagePercent)

\* a SELL that walked down two bid levels and received less than the best bid
C7_Witness ==
    /\ Called
    /\ WellFormedBook(book) /\ input.size > 0
    /\ input.side = "SELL"
    /\ Len(result.fills) = 2
    /\ RLt(Zero, result.slippageFromBest)
    /\ RLt(Zero, result.slippagePercent)

(* C8: for a result with filledSize n > 0 and averagePrice p the payoff
   follows the sign table: BUY YES ((1-p)n, -pn), BUY NO (-pn, (1-p)n),
   SELL YES ((p-1)n, pn), SELL NO (pn, (p-1)n); for BUY YES
   pnlIfYes - pnlIfNo = n. *)
C8_PayoffSignTable ==
    (pc = "paid" /\ result.filledSize > 0) =>
        LET p == result.averagePrice
            n == R(result.filledSize)
            longWin == RMul(RSub(One, p), n)
            longLose == RNeg(RMul(p, n))
            shortWin == RMul(p, n)
            shortLose == RMul(RSub(p, One), n)
            table == [ BUY  |-> [ YES |-> <<longWin, longLose>>,
                                  NO  |-> <<longLose, longWin>> ],
                       SELL |-> [ YES |-> <<shortLose, shortWin>>,
                                  NO  |-> <<shortWin, shortLose>> ] ]
        IN  /\ <<payoff.pnlIfYes, payoff.pnlIfNo>> = table[result.side][result.outcome]
            /\ (result.side = "BUY" /\ result.outcome = "YES") =>
                  RSub(payoff.pnlIfYes, payoff.pnlIfNo) = n

\* the payoff of a filled SELL NO at a price strictly between 0 and 1
C8_Witness ==
    /\ pc = "paid"
    /\ result.side = "SELL" /\ result.outcome = "NO"
    /\ result.filledSize > 0
    /\ RLt(Zero, result.averagePrice) /\ RLt(result.averagePrice, One)
    /\ RLt(Zero, payoff.pnlIfYes) /\ RLt(payoff.pnlIfNo, Zero)

(* C9: for a result priced from a book whose prices lie in [0,1]
   maxLoss <= 0 <= maxGain and capitalAtRisk = -maxLoss; when filledSize = 0
   every numeric field of the PayoffResult is 0. *)
PricesInUnitRange(levels) ==
    \A i \in 1 .. Len(levels) : RLe(Zero, levels[i].price) /\ RLe(levels[i].price, One)

C9_RiskBounds ==
    pc = "paid" =>
        /\ (PricesInUnitRange(book.bids) /\ PricesInUnitRange(book.asks)) =>
              /\ RLe(payoff.maxLoss, Zero)
              /\ RLe(Zero, payoff.maxGain)
              /\ payoff.capitalAtRisk = RNeg(payoff.maxLoss)
        /\ result.filledSize = 0 =>
              /\ payoff.contracts = 0
              /\ \A field \in { "entryPrice", "totalCost", "pnlIfYes", "pnlIfNo",
                                "returnIfYes", "returnIfNo", "maxGain", "maxLoss",
                                "capitalAtRisk", "impliedProbability" } :
                    payoff[field] = Zero

\* a filled position that can lose and can win
C9_Witness ==
    /\ pc = "paid"
    /\ result.filledSize > 0
    /\ RLt(payoff.maxLoss, Zero)
    /\ RLt(Zero, payoff.maxGain)
    /\ RLt(Zero, payoff.capitalAtRisk)

(* C10: returnIfYes and returnIfNo are pnl / |totalCost| * 100, and 0 when
   totalCost is 0.  For a BUY with positive fill and totalCost > 0 the
   return of the losing resolution is -100 and the return r of the winning
   one satisfies r * p = (1 - p) * 100.  BUY YES at 0.40 with 100 contracts:
   pnlIfYes = 60, pnlIfNo = -40, returnIfYes = 150, returnIfNo = -100. *)
C10_ReturnFormula ==
    /\ payoff.totalCost = Zero => (payoff.returnIfYes = Zero /\ payoff.returnIfNo = Zero)
    /\ payoff.totalCost # Zero =>
          /\ RMul(payoff.returnIfYes, RAbs(payoff.totalCost)) = RMul(payoff.pnlIfYes, Hundred)
          /\ RMul(payoff.returnIfNo, RAbs(payoff.totalCost)) = RMul(payoff.pnlIfNo, Hundred)

C10_LosingReturn == IF result.outcome = "YES" THEN payoff.returnIfNo ELSE payoff.returnIfYes
C10_WinningReturn == IF result.outcome = "YES" THEN payoff.returnIfYes ELSE payoff.returnIfNo

C10_BuyReturns ==
    /\ C10_LosingReturn = R(-100)
    /\ RMul(C10_WinningReturn, result.averagePrice)
          = RMul(RSub(One, result.averagePrice), Hundred)

C10_Scenario ==
    (book = ScenarioPayoff.book /\ input = ScenarioPayoff.input) =>
        /\ payoff.pnlIfYes = R(60)
        /\ payoff.pnlIfNo = R(-40)
        /\ payoff.returnIfYes = R(150)
        /\ payoff.returnIfNo = R(-100)

\* the claim as stated: every BUY with positive fill
C10_ReturnsOfEveryFilledBuy ==
    pc = "paid" =>
        /\ C10_ReturnFormula
        /\ C10_Scenario
        /\ (result.side = "BUY" /\ result.filledSize > 0) => C10_BuyReturns

\* the claim as amended: every BUY with positive fill and totalCost > 0
C10_ReturnsOfPaidBuy ==
    pc = "paid" =>
        /\ C10_ReturnFormula
        /\ C10_Scenario
        /\ (result.side = "BUY" /\ result.filledSize > 0
               /\ RLt(Zero, result.totalCost)) => C10_BuyReturns

\* the payoff of the worked scenario has been computed
C10_Witness ==
    /\ pc = "paid"
    /\ book = ScenarioPayoff.book /\ input = ScenarioPayoff.input
    /\ result.side = "BUY" /\ result.filledSize = 100
    /\ RLt(Zero, result.totalCost)
    /\ payoff.returnIfYes = R(150)

----------------------------------------------------------------------------
(* Division by zero.  calculateKellyFraction divides without a guard, so
   its numbers range over the IEEE values as well: Infinity is 1/0,
   -Infinity is -1/0 and NaN is 0/0.  Every zero that reaches a division
   here is +0 (a difference or product of values in [0,1]). *)

NaN == [num |-> 0, den |-> 0]
PosInfinity == [num |-> 1, den |-> 0]
NegInfinity == [num |-> -1, den |-> 0]

IsNaN(x) == x.num = 0 /\ x.den = 0
IsFinite(x) == x.den # 0
Sign(x) == IF x.num < 0 THEN -1 ELSE IF x.num > 0 THEN 1 ELSE 0
InfinityOf(sign) == IF sign < 0 THEN NegInfinity ELSE PosInfinity

JsMul(a, b) ==
    IF IsNaN(a) \/ IsNaN(b) THEN NaN
    ELSE IF IsFinite(a) /\ IsFinite(b) THEN RMul(a, b)
    ELSE IF Sign(a) * Sign(b) = 0 THEN NaN
    ELSE InfinityOf(Sign(a) * Sign(b))

JsSub(a, b) ==
    IF IsNaN(a) \/ IsNaN(b) THEN NaN
    ELSE IF IsFinite(a) /\ IsFinite(b) THEN RSub(a, b)
    ELSE IF IsFinite(b) THEN a
    ELSE IF IsFinite(a) THEN InfinityOf(-Sign(b))
    ELSE IF Sign(a) = Sign(b) THEN NaN ELSE a

JsDiv(a, b) ==
    IF IsNaN(a) \/ IsNaN(b) THEN NaN
    ELSE IF ~IsFinite(a)
         THEN IF ~IsFinite(b) THEN NaN
              ELSE InfinityOf(Sign(a) * (IF b.num < 0 THEN -1 ELSE 1))
    ELSE IF ~IsFinite(b) THEN Zero
    ELSE IF b.num = 0
         THEN IF a.num = 0 THEN NaN ELSE InfinityOf(Sign(a))
    ELSE RDiv(a, b)

\* a < b of JavaScript: false when either side is NaN
JsLt(a, b) ==
    /\ ~IsNaN(a) /\ ~IsNaN(b)
    /\ a # b
    /\ IF IsFinite(a) /\ IsFinite(b) THEN RLt(a, b)
       ELSE IF ~IsFinite(a) THEN Sign(a) < 0
       ELSE Sign(b) > 0

\* Math.max: NaN when either argument is NaN
JsMax(a, b) ==
    IF IsNaN(a) \/ IsNaN(b) THEN NaN
    ELSE IF JsLt(a, b) THEN b ELSE a

----------------------------------------------------------------------------
(* calculateKellyFraction *)

\* winProb, loseProb, payoffIfWin, lossIfLose of the four positions
kellyPosition(trueProb, marketPrice, side, outcome) ==
    IF side = "BUY" /\ outcome = "YES"
    THEN [ winProb     |-> trueProb,
           loseProb    |-> RSub(One, trueProb),
           payoffIfWin |-> RSub(One, marketPrice),
           lossIfLose  |-> marketPrice ]
    ELSE IF side = "BUY" /\ outcome = "NO"
    THEN [ winProb     |-> RSub(One, trueProb),
           loseProb    |-> trueProb,
           payoffIfWin |-> RSub(One, marketPrice),
           lossIfLose  |-> marketPrice ]
    ELSE IF side = "SELL" /\ outcome = "YES"
    THEN [ winProb     |-> RSub(One, trueProb),
           loseProb    |-> trueProb,
           payoffIfWin |-> marketPrice,
           lossIfLose  |-> RSub(One, marketPrice) ]
    ELSE [ winProb     |-> trueProb,
           loseProb    |-> RSub(One, trueProb),
           payoffIfWin |-> marketPrice,
           lossIfLose  |-> RSub(One, marketPrice) ]

calculateKellyFraction(trueProb, marketPrice, side, outcome) ==
    LET pos == kellyPosition(trueProb, marketPrice, side, outcome)
        b == JsDiv(pos.payoffIfWin, pos.lossIfLose)
        kelly == JsDiv(JsSub(JsMul(pos.winProb, b), pos.loseProb), b)
        edge == RSub(RMul(pos.winProb, pos.payoffIfWin),
                     RMul(pos.loseProb, pos.lossIfLose))
    IN  [fraction |-> JsMax(Zero, kelly), edge |-> edge]

\* Probabilities and prices k / ProbSteps of the explored calls
ProbSteps == 4

Probabilities == {Rat(k, ProbSteps) : k \in 0 .. ProbSteps}

KellyCalls ==
    [trueProb : Probabilities, marketPrice : Probabilities,
     side : TradeSide, outcome : Outcome]

InitKelly ==
    /\ pc = "kelly"
    /\ kellyArgs \in KellyCalls
    /\ kellyOut = None
    /\ NoPricer /\ NoCompare /\ NoSearch /\ NoSlip /\ NoDisc
    /\ NoFetch /\ NoRoute /\ NoAnalyze

Kelly ==
    /\ pc = "kelly"
    /\ kellyOut' = calculateKellyFraction(kellyArgs.trueProb, kellyArgs.marketPrice,
                                          kellyArgs.side, kellyArgs.outcome)
    /\ pc' = "kellyDone"
    /\ UNCHANGED <<kellyArgs, pricerVars, compareVars, searchVars, slipVars, discVars, fetchVars, routeVars, analyzeVars>>

NextKelly == Kelly

SpecKelly == InitKelly /\ [][NextKelly]_vars

(* C11: for trueProb and marketPrice in [0,1] and all four positions the
   returned fraction is never negative, and it is 0 whenever the returned
   edge is 0. *)
C11_KellyNonNegative ==
    pc = "kellyDone" =>
        /\ ~JsLt(kellyOut.fraction, Zero)
        /\ kellyOut.edge = Zero => kellyOut.fraction = Zero

----------------------------------------------------------------------------
(* analyzeOrderBook *)

RECURSIVE calculateSizeToMovePriceFrom(_, _, _, _)
calculateSizeToMovePriceFrom(levels, targetPrice, direction, i) ==
    IF i > Len(levels) THEN 0
    ELSE LET priceReached == IF direction = "up"
                             THEN RLe(targetPrice, levels[i].price)
                             ELSE RLe(levels[i].price, targetPrice)
         IN  IF priceReached THEN 0
             ELSE levels[i].size
                    + calculateSizeToMovePriceFrom(levels, targetPrice, direction, i + 1)

calculateSizeToMovePrice(levels, percentMove, direction) ==
    IF Len(levels) = 0 THEN 0
    ELSE LET startPrice == levels[1].price
             targetPrice == IF direction = "up"
                            THEN RMul(startPrice, RAdd(One, percentMove))
                            ELSE RMul(startPrice, RSub(One, percentMove))
         IN  calculateSizeToMovePriceFrom(levels, targetPrice, direction, 1)

RECURSIVE SumSizes(_, _)
SumSizes(levels, k) == IF k = 0 THEN 0 ELSE SumSizes(levels, k - 1) + levels[k].size

Max(a, b) == IF a >= b THEN a ELSE b

\* the imbalance of the two sides' depth without the division by their total
depthImbalanceOf_Undivided(bidDepthTotal, askDepthTotal) ==
    R(bidDepthTotal - askDepthTotal)

\* (bid - ask) / (bid + ask), 0 for a book with no depth
depthImbalanceOf(bidDepthTotal, askDepthTotal) ==
    IF bidDepthTotal + askDepthTotal > 0
    THEN Rat(bidDepthTotal - askDepthTotal, bidDepthTotal + askDepthTotal)
    ELSE Zero

analyzeOrderBook(orderBook) ==
    LET bids == orderBook.bids
        asks == orderBook.asks
        bestBid == IF Len(bids) > 0 THEN bids[1].price ELSE Zero
        bestAsk == IF Len(asks) > 0 THEN asks[1].price ELSE One
        spread == RSub(bestAsk, bestBid)
        midpoint == RDiv(RAdd(bestBid, bestAsk), R(2))
        bidDepthTotal == SumSizes(bids, Len(bids))
        askDepthTotal == SumSizes(asks, Len(asks))
        totalDepth == bidDepthTotal + askDepthTotal
        levelCount == Len(bids) + Len(asks)
    IN  [ bestBid               |-> bestBid,
          bestAsk               |-> bestAsk,
          spread                |-> spread,
          spreadPercent         |-> IF RLt(Zero, midpoint)
                                    THEN RMul(RDiv(spread, midpoint), Hundred)
                                    ELSE Zero,
          midpoint              |-> midpoint,
          bidDepthTotal         |-> bidDepthTotal,
          askDepthTotal         |-> askDepthTotal,
          depthImbalance        |-> depthImbalanceOf(bidDepthTotal, askDepthTotal),
          sizeToMoveBid1Percent |-> calculateSizeToMovePrice(bids, Rat(1, 100), "down"),
          sizeToMoveAsk1Percent |-> calculateSizeToMovePrice(asks, Rat(1, 100), "up"),
          levelCount            |-> levelCount,
          averageLevelSize      |-> Rat(totalDepth, Max(levelCount, 1)) ]

----------------------------------------------------------------------------
(* compareMarkets *)

BuyInput(outcome, size) == [side |-> "BUY", outcome |-> outcome, size |-> size]

\* YES + NO below this counts as a same-market arbitrage (2% for fees)
ArbitrageSumLimit == Rat(98, 100)
\* cross-market difference above this is reported as a discrepancy
CrossDiffLimit == Rat(5, 100)
\* YES + NO above this is a dominance violation
DominanceSumLimit == Rat(105, 100)

\* the first two tests, on market A and then on market B
sameMarketArbitrage_EitherOrder(sumA, sumB) ==
    IF RLt(sumB, ArbitrageSumLimit)
    THEN [hasArbitrage |-> TRUE, arbitrageEdge |-> RSub(One, sumB), market |-> "B"]
    ELSE IF RLt(sumA, ArbitrageSumLimit)
    THEN [hasArbitrage |-> TRUE, arbitrageEdge |-> RSub(One, sumA), market |-> "A"]
    ELSE [hasArbitrage |-> FALSE, arbitrageEdge |-> Zero, market |-> "none"]

sameMarketArbitrage(sumA, sumB) ==
    IF RLt(sumA, ArbitrageSumLimit)
    THEN [hasArbitrage |-> TRUE, arbitrageEdge |-> RSub(One, sumA), market |-> "A"]
    ELSE IF RLt(sumB, ArbitrageSumLimit)
    THEN [hasArbitrage |-> TRUE, arbitrageEdge |-> RSub(One, sumB), market |-> "B"]
    ELSE [hasArbitrage |-> FALSE, arbitrageEdge |-> Zero, market |-> "none"]

\* the cross-market test that follows them
crossMarketDiscrepancy_AsArbitrage(yesDiff, noDiff) ==
    IF RLt(CrossDiffLimit, yesDiff) \/ RLt(CrossDiffLimit, noDiff)
    THEN [hasArbitrage |-> TRUE, arbitrageEdge |-> RMax(yesDiff, noDiff), market |-> "cross"]
    ELSE [hasArbitrage |-> FALSE, arbitrageEdge |-> Zero, market |-> "none"]

crossMarketDiscrepancy(yesDiff, noDiff) ==
    IF RLt(CrossDiffLimit, yesDiff) \/ RLt(CrossDiffLimit, noDiff)
    THEN [hasArbitrage |-> FALSE, arbitrageEdge |-> RMax(yesDiff, noDiff), market |-> "cross"]
    ELSE [hasArbitrage |-> FALSE, arbitrageEdge |-> Zero, market |-> "none"]

\* market stands for arbitrageDetails: which market, or the cross-market
\* discrepancy, the message names
detectApparentArbitrage(execAYes, execANo, execBYes, execBNo) ==
    LET sumA == RAdd(execAYes.averagePrice, execANo.averagePrice)
        sumB == RAdd(execBYes.averagePrice, execBNo.averagePrice)
        same == sameMarketArbitrage(sumA, sumB)
        yesDiff == RAbs(RSub(execAYes.averagePrice, execBYes.averagePrice))
        noDiff == RAbs(RSub(execANo.averagePrice, execBNo.averagePrice))
    IN  IF same.hasArbitrage THEN same ELSE crossMarketDiscrepancy(yesDiff, noDiff)

\* Check 2 of checkDominanceViolations on one price
invalidPrice_AboveOnly(price) == RLt(One, price)

invalidPrice(price) == RLt(price, Zero) \/ RLt(One, price)

checkDominanceViolations(mA, mB, execAYes, execANo, execBYes, execBNo) ==
    LET sumA == RAdd(execAYes.averagePrice, execANo.averagePrice)
        sumB == RAdd(execBYes.averagePrice, execBNo.averagePrice)
        prices == << execAYes.averagePrice, execANo.averagePrice,
                     execBYes.averagePrice, execBNo.averagePrice >>
    IN  IF RLt(DominanceSumLimit, sumA) THEN [hasViolation |-> TRUE, details |-> "A"]
        ELSE IF RLt(DominanceSumLimit, sumB) THEN [hasViolation |-> TRUE, details |-> "B"]
        ELSE IF \E i \in 1 .. 4 : invalidPrice(prices[i])
        THEN [hasViolation |-> TRUE, details |-> "price"]
        ELSE [hasViolation |-> FALSE, details |-> "none"]

\* upper end of the binary search of findMaxViableArbSize
SearchHigh == 10000

\* iterations counts the passes through the loop body; the program keeps
\* no such counter.
SearchInit == [low |-> 0, high |-> SearchHigh, maxSize |-> 0, iterations |-> 0]

\* edgeRemaining of the two YES books at a size
edgeRemainingAt(bookA, bookB, side, initialEdge, size) ==
    LET execA == calculateExecutionPrice(bookA, [side |-> side, outcome |-> "YES", size |-> size])
        execB == calculateExecutionPrice(bookB, [side |-> side, outcome |-> "YES", size |-> size])
        totalSlippage == RAdd(execA.slippagePercent, execB.slippagePercent)
    IN  RSub(RMul(initialEdge, Hundred), totalSlippage)

\* the two branches of the loop body
searchBranch_KeepsMaxSize(s, mid, viable) ==
    IF viable THEN [s EXCEPT !.low = mid] ELSE [s EXCEPT !.high = mid]

searchBranch(s, mid, viable) ==
    IF viable THEN [s EXCEPT !.maxSize = mid, !.low = mid] ELSE [s EXCEPT !.high = mid]

\* one pass through the body of the while loop
SearchStep(s, mA, mB, initialEdge) ==
    LET mid == (s.low + s.high) \div 2
        edgeRemaining == edgeRemainingAt(mA.yes, mB.yes, "BUY", initialEdge, mid)
    IN  [searchBranch(s, mid, RLt(Zero, edgeRemaining)) EXCEPT !.iterations = @ + 1]

SearchRunning(s) == s.high - s.low > 1

RECURSIVE SearchLoop(_, _, _, _)
SearchLoop(s, mA, mB, initialEdge) ==
    IF SearchRunning(s) THEN SearchLoop(SearchStep(s, mA, mB, initialEdge), mA, mB, initialEdge)
    ELSE s

findMaxViableArbSize(mA, mB, initialEdge) ==
    IF RLe(initialEdge, Zero) THEN 0
    ELSE SearchLoop(SearchInit, mA, mB, initialEdge).maxSize

\* the edge compareMarkets hands to findMaxViableArbSize
searchEdgeOf_AnyEdge(arb) == RAbs(arb.arbitrageEdge)

searchEdgeOf(arb) == IF arb.hasArbitrage THEN RAbs(arb.arbitrageEdge) ELSE Zero

RMax4(a, b, c, d) == RMax(RMax(a, b), RMax(c, d))
Min4(a, b, c, d) == Min(Min(a, b), Min(c, d))

imbalanceSignals(names, imbs) ==
    LET hit == SelectSeq(<<1, 2, 3, 4>>, LAMBDA i : RLt(Rat(1, 2), RAbs(imbs[i])))
    IN  [k \in 1 .. Len(hit) |->
            [ kind      |-> "imbalance",
              name      |-> names[hit[k]],
              direction |-> IF RLt(Zero, imbs[hit[k]]) THEN "bid-heavy" ELSE "ask-heavy" ]]

\* the low depth test
lowDepth_Inclusive(size, minDepth) == 2 * size >= minDepth

lowDepth(size, minDepth) == 2 * size > minDepth

\* A signal is modelled by what its message says, not by its wording.
generateRiskSignals(analysisAYes, analysisANo, analysisBYes, analysisBNo, size) ==
    LET maxSpread == RMax4(analysisAYes.spreadPercent, analysisANo.spreadPercent,
                           analysisBYes.spreadPercent, analysisBNo.spreadPercent)
        minDepth == Min4(analysisAYes.bidDepthTotal + analysisAYes.askDepthTotal,
                         analysisANo.bidDepthTotal + analysisANo.askDepthTotal,
                         analysisBYes.bidDepthTotal + analysisBYes.askDepthTotal,
                         analysisBNo.bidDepthTotal + analysisBNo.askDepthTotal)
        wide == IF RLt(R(5), maxSpread) THEN << [kind |-> "wide-spread"] >> ELSE <<>>
        thin == IF lowDepth(size, minDepth) THEN << [kind |-> "low-depth"] >> ELSE <<>>
    IN  wide \o thin \o
        imbalanceSignals(<<"A-YES", "A-NO", "B-YES", "B-NO">>,
                         << analysisAYes.depthImbalance, analysisANo.depthImbalance,
                            analysisBYes.depthImbalance, analysisBNo.depthImbalance >>)

compareMarkets(mA, mB, size) ==
    LET analysisAYes == analyzeOrderBook(mA.yes)
        analysisANo == analyzeOrderBook(mA.no)
        analysisBYes == analyzeOrderBook(mB.yes)
        analysisBNo == analyzeOrderBook(mB.no)
        execAYes == calculateExecutionPrice(mA.yes, BuyInput("YES", size))
        execANo == calculateExecutionPrice(mA.no, BuyInput("NO", size))
        execBYes == calculateExecutionPrice(mB.yes, BuyInput("YES", size))
        execBNo == calculateExecutionPrice(mB.no, BuyInput("NO", size))
        arb == detectApparentArbitrage(execAYes, execANo, execBYes, execBNo)
        dominanceCheck == checkDominanceViolations(mA, mB, execAYes, execANo, execBYes, execBNo)
    IN  [ marketA |-> [ executionPriceYes |-> execAYes.averagePrice,
                        executionPriceNo  |-> execANo.averagePrice,
                        spreadWidth       |-> analysisAYes.spread,
                        depthAtSize       |-> Min(execAYes.filledSize, execANo.filledSize) ],
          marketB |-> [ executionPriceYes |-> execBYes.averagePrice,
                        executionPriceNo  |-> execBNo.averagePrice,
                        spreadWidth       |-> analysisBYes.spread,
                        depthAtSize       |-> Min(execBYes.filledSize, execBNo.filledSize) ],
          priceDifferenceYes |-> RSub(execAYes.averagePrice, execBYes.averagePrice),
          priceDifferenceNo  |-> RSub(execANo.averagePrice, execBNo.averagePrice),
          apparentArbitrage  |-> arb.hasArbitrage,
          arbitrageEdge      |-> arb.arbitrageEdge,
          arbitrageDetails   |-> arb.market,
          maxViableSize      |-> findMaxViableArbSize(mA, mB, searchEdgeOf(arb)),
          slippageAtSize     |-> RAdd(RAdd(execAYes.slippagePercent, execANo.slippagePercent),
                                      RAdd(execBYes.slippagePercent, execBNo.slippagePercent)),
          dominanceViolation |-> dominanceCheck.hasViolation,
          dominanceDetails   |-> dominanceCheck.details,
          riskSignals        |-> generateRiskSignals(analysisAYes, analysisANo,
                                                     analysisBYes, analysisBNo, size) ]

----------------------------------------------------------------------------
(* Calls of compareMarkets *)

MaxCompareSize == 2

Lvl(p, q, size) == [price |-> Rat(p, q), size |-> size]

\* bid 0.39, ask 0.40: a tight book
TightLow == [bids |-> << Lvl(39, 100, 1) >>, asks |-> << Lvl(2, 5, 1) >>]
\* bid 0.59, ask 0.60: a tight book
TightHigh == [bids |-> << Lvl(59, 100, 1) >>, asks |-> << Lvl(3, 5, 1) >>]
\* asks only
AskLow == [bids |-> <<>>, asks |-> << Lvl(2, 5, 1) >>]
AskHigh == [bids |-> <<>>, asks |-> << Lvl(3, 5, 2) >>]
AskMid == [bids |-> <<>>, asks |-> << Lvl(11, 20, 1) >>]
AskPenny == [bids |-> <<>>, asks |-> << Lvl(1, 100, 1) >>]
AskLadder == [bids |-> <<>>, asks |-> << Lvl(2, 5, 1), Lvl(3, 5, 1) >>]
EmptyBook == [bids |-> <<>>, asks |-> <<>>]
\* fetchOrderBook (clob-client.ts:86-125) checks sizes only: any price the
\* exchange sends reaches the comparator
AskAboveOne == [bids |-> <<>>, asks |-> << Lvl(51, 50, 1) >>]
AskBelowZero == [bids |-> <<>>, asks |-> << Lvl(-1, 5, 1) >>]
\* more resting bids than asks
BidHeavy == [bids |-> << Lvl(2, 5, 4) >>, asks |-> << Lvl(3, 5, 1) >>]
\* asks out of price order: compareMarkets takes the books as they are
AskUnsorted == [bids |-> <<>>,
                asks |-> << Lvl(2, 5, 1), Lvl(3, 5, 1), Lvl(0, 1, 1), Lvl(6, 5, 1) >>]

\* marketId and question are copied to the result and are left out
Market(yes, no) == [yes |-> yes, no |-> no]

MarketsUnderTest ==
    { Market(TightLow, TightHigh),       \* 0.40 + 0.60
      Market(TightLow, AskLow),          \* 0.40 + 0.40
      Market(AskLadder, AskLow),         \* 0.40 + 0.40, 0.50 + 0.40 at size 2
      Market(AskHigh, TightHigh),        \* 0.60 + 0.60
      Market(AskHigh, AskLow),           \* 0.60 + 0.40
      Market(EmptyBook, EmptyBook),      \* nothing to buy
      Market(TightLow, AskMid),          \* 0.40 + 0.55
      Market(AskAboveOne, AskPenny),     \* 1.02 + 0.01
      Market(AskHigh, AskBelowZero),     \* 0.60 - 0.20
      Market(BidHeavy, TightLow),        \* 0.60 + 0.40
      Market(AskUnsorted, AskLow) }      \* 0.40 + 0.40 at size 1

InitCompare ==
    /\ pc = "compare"
    /\ marketA \in MarketsUnderTest
    /\ marketB \in MarketsUnderTest
    /\ tradeSize \in 1 .. MaxCompareSize
    /\ comparison = None
    /\ NoPricer /\ NoKelly /\ NoSearch /\ NoSlip /\ NoDisc
    /\ NoFetch /\ NoRoute /\ NoAnalyze

Compare ==
    /\ pc = "compare"
    /\ comparison' = compareMarkets(marketA, marketB, tradeSize)
    /\ pc' = "compared"
    /\ UNCHANGED <<marketA, marketB, tradeSize,
                   pricerVars, kellyVars, searchVars, slipVars, discVars, fetchVars, routeVars, analyzeVars>>

NextCompare == Compare

SpecCompare == InitCompare /\ [][NextCompare]_vars

Compared == pc = "compared"

\* the four executions behind a comparison
ExecAYes == calculateExecutionPrice(marketA.yes, BuyInput("YES", tradeSize))
ExecANo == calculateExecutionPrice(marketA.no, BuyInput("NO", tradeSize))
ExecBYes == calculateExecutionPrice(marketB.yes, BuyInput("YES", tradeSize))
ExecBNo == calculateExecutionPrice(marketB.no, BuyInput("NO", tradeSize))
SumA == RAdd(ExecAYes.averagePrice, ExecANo.averagePrice)
SumB == RAdd(ExecBYes.averagePrice, ExecBNo.averagePrice)

YesDiff == RAbs(RSub(ExecAYes.averagePrice, ExecBYes.averagePrice))
NoDiff == RAbs(RSub(ExecANo.averagePrice, ExecBNo.averagePrice))
SumBelowLimit(sum) == RLt(sum, ArbitrageSumLimit)

(* C12: compareMarkets reports apparentArbitrage exactly when the BUY YES
   plus BUY NO average execution price at tradeSize is below 0.98 for
   market A or for market B; arbitrageEdge is then 1 minus that sum, and
   market A's sum is the one used when both markets qualify. *)
C12_SameMarketArbitrage ==
    Compared =>
        /\ comparison.apparentArbitrage <=> (SumBelowLimit(SumA) \/ SumBelowLimit(SumB))
        /\ SumBelowLimit(SumA) => comparison.arbitrageEdge = RSub(One, SumA)
        /\ (~SumBelowLimit(SumA) /\ SumBelowLimit(SumB))
               => comparison.arbitrageEdge = RSub(One, SumB)

\* both markets qualify with different sums, market A's being 0.95
C12_Witness ==
    /\ Compared
    /\ SumA = Rat(95, 100)
    /\ SumBelowLimit(SumB) /\ SumB # SumA
    /\ comparison.apparentArbitrage
    /\ comparison.arbitrageEdge = Rat(5, 100)

(* C13: when neither market's YES+NO execution sum is below 0.98, a YES or
   NO price difference between the markets above 0.05 leaves
   apparentArbitrage false and puts the larger absolute difference in
   arbitrageEdge; with no such difference arbitrageEdge is 0. *)
C13_CrossMarketNotArbitrage ==
    (Compared /\ ~SumBelowLimit(SumA) /\ ~SumBelowLimit(SumB)) =>
        /\ ~comparison.apparentArbitrage
        /\ comparison.arbitrageEdge =
               IF RLt(CrossDiffLimit, YesDiff) \/ RLt(CrossDiffLimit, NoDiff)
               THEN RMax(YesDiff, NoDiff)
               ELSE Zero

C13_Witness ==
    /\ Compared /\ ~SumBelowLimit(SumA) /\ ~SumBelowLimit(SumB)
    /\ RLt(CrossDiffLimit, YesDiff) /\ RLt(NoDiff, YesDiff)
    /\ ~comparison.apparentArbitrage
    /\ comparison.arbitrageEdge = YesDiff

PriceOutsideUnitRange(price) == RLt(price, Zero) \/ RLt(One, price)
AnyPriceOutsideUnitRange ==
    \/ PriceOutsideUnitRange(ExecAYes.averagePrice)
    \/ PriceOutsideUnitRange(ExecANo.averagePrice)
    \/ PriceOutsideUnitRange(ExecBYes.averagePrice)
    \/ PriceOutsideUnitRange(ExecBNo.averagePrice)

(* C14: compareMarkets reports dominanceViolation exactly when market A's
   or market B's YES+NO average execution price sum exceeds 1.05, or one
   of the four average execution prices lies outside [0,1]. *)
C14_DominanceViolation ==
    Compared =>
        (comparison.dominanceViolation <=>
            \/ RLt(DominanceSumLimit, SumA)
            \/ RLt(DominanceSumLimit, SumB)
            \/ AnyPriceOutsideUnitRange)

\* a negative price alone makes the violation
C14_Witness ==
    /\ Compared
    /\ ~RLt(DominanceSumLimit, SumA) /\ ~RLt(DominanceSumLimit, SumB)
    /\ RLt(ExecANo.averagePrice, Zero)
    /\ ~RLt(One, ExecAYes.averagePrice)
    /\ ~PriceOutsideUnitRange(ExecBYes.averagePrice)
    /\ ~PriceOutsideUnitRange(ExecBNo.averagePrice)
    /\ comparison.dominanceViolation

\* edgeRemaining of the comparison's edge at a size, as findMaxViableArbSize
\* computes it, and whether the size is viable
EdgeLeftAt(size) ==
    edgeRemainingAt(marketA.yes, marketB.yes, "BUY", comparison.arbitrageEdge, size)
ViableAt(size) == RLt(Zero, EdgeLeftAt(size))

\* the quantity never grows with the size, over sizes 0 .. top
NonIncreasingUpTo(top) ==
    \A size \in 0 .. top - 1 : RLe(EdgeLeftAt(size + 1), EdgeLeftAt(size))

\* m is the largest viable size of 0 .. top
LargestViableUpTo(m, top) ==
    /\ m \in 0 .. top
    /\ ViableAt(m)
    /\ \A size \in m + 1 .. top : ~ViableAt(size)

(* C15: when compareMarkets found an arbitrage edge and edge*100 minus the
   two BUY YES slippage percentages never grows with the size,
   maxViableSize is the largest integer size in [0, 10000] at which that
   quantity is positive; when no edge was found maxViableSize is 0. *)
C15_LargestViableSize ==
    Compared =>
        IF comparison.apparentArbitrage
        THEN NonIncreasingUpTo(SearchHigh)
                 => LargestViableUpTo(comparison.maxViableSize, SearchHigh)
        ELSE comparison.maxViableSize = 0

\* What the search does establish: the same with the upper end of the
\* range left out, which the loop never tries.
C15_LargestViableBelowHigh ==
    Compared =>
        IF comparison.apparentArbitrage
        THEN NonIncreasingUpTo(SearchHigh)
                 => LargestViableUpTo(comparison.maxViableSize, SearchHigh - 1)
        ELSE comparison.maxViableSize = 0

\* on books out of price order the search can stop short of a viable size
C15_UnsortedBookMissed ==
    /\ Compared /\ comparison.apparentArbitrage
    /\ ~NonIncreasingUpTo(SearchHigh)
    /\ \E size \in comparison.maxViableSize + 1 .. 4 : ViableAt(size)

IdenticalBooks == marketA = marketB

\* the three conditions of generateRiskSignals, on the books compared
BookDepth(b) == Depth(b.bids) + Depth(b.asks)
ComparedBooks == <<marketA.yes, marketA.no, marketB.yes, marketB.no>>
SpreadTriggers == \E i \in 1 .. 4 : RLt(R(5), analyzeOrderBook(ComparedBooks[i]).spreadPercent)
DepthTriggers == \E i \in 1 .. 4 : 2 * tradeSize > BookDepth(ComparedBooks[i])
ImbalanceTriggers ==
    \E i \in 1 .. 4 : RLt(Rat(1, 2), RAbs(analyzeOrderBook(ComparedBooks[i]).depthImbalance))

QuietComparison ==
    /\ ~comparison.apparentArbitrage
    /\ ~comparison.dominanceViolation
    /\ comparison.priceDifferenceYes = Zero
    /\ comparison.priceDifferenceNo = Zero
    /\ comparison.riskSignals # <<>> => (SpreadTriggers \/ DepthTriggers \/ ImbalanceTriggers)

(* C17, as stated: on identical order books compareMarkets reports neither
   apparent arbitrage nor a dominance violation, and no risk signal unless
   the spread, depth or imbalance condition holds. *)
C17_IdenticalBooksQuiet == (Compared /\ IdenticalBooks) => QuietComparison

\* the market prices both outcomes within [0,1] and their sum within
\* [0.98, 1.05]
FairlyPriced ==
    /\ ~SumBelowLimit(SumA)
    /\ ~RLt(DominanceSumLimit, SumA)
    /\ ~PriceOutsideUnitRange(ExecAYes.averagePrice)
    /\ ~PriceOutsideUnitRange(ExecANo.averagePrice)

(* C17, amended: on identical order books whose YES and NO execution
   prices lie in [0,1] and sum to between 0.98 and 1.05, compareMarkets
   reports neither apparent arbitrage nor a dominance violation, and no
   risk signal unless the spread, depth or imbalance condition holds. *)
C17_IdenticalFairBooksQuiet ==
    (Compared /\ IdenticalBooks /\ FairlyPriced) =>
        (QuietComparison /\ comparison.arbitrageEdge = Zero)

\* identical, fairly priced, and none of the three conditions holds
C17_Witness ==
    /\ Compared /\ IdenticalBooks /\ FairlyPriced
    /\ ~SpreadTriggers /\ ~DepthTriggers /\ ~ImbalanceTriggers
    /\ comparison.riskSignals = <<>>
    /\ ~comparison.apparentArbitrage

\* the market compareMarkets names as the arbitrage
FlaggedMarket == IF comparison.arbitrageDetails = "A" THEN marketA ELSE marketB
FlaggedLegs ==
    IF comparison.arbitrageDetails = "A" THEN <<ExecAYes, ExecANo>> ELSE <<ExecBYes, ExecBNo>>

(* C27: compareMarkets reports apparentArbitrage = true only when the BUY
   YES and the BUY NO leg of the market it names were both filled
   (filledSize > 0); a market whose YES or NO book has no asks is never
   the one reported as an arbitrage. *)
C27_ArbitrageLegsFilled ==
    (Compared /\ comparison.apparentArbitrage) =>
        /\ FlaggedLegs[1].filledSize > 0
        /\ FlaggedLegs[2].filledSize > 0
        /\ Len(FlaggedMarket.yes.asks) > 0
        /\ Len(FlaggedMarket.no.asks) > 0

(* C30: maxViableSize is always an integer from 0 to 9999, and it is 0
   whenever apparentArbitrage is false, also when a cross-market
   discrepancy leaves an arbitrageEdge above 0. *)
C30_MaxViableSizeRange ==
    Compared =>
        /\ comparison.maxViableSize \in 0 .. 9999
        /\ ~comparison.apparentArbitrage => comparison.maxViableSize = 0

\* a cross-market discrepancy: an edge above 0 on books that would carry
\* it at every size, and no arbitrage reported
C30_Witness ==
    /\ Compared
    /\ ~comparison.apparentArbitrage
    /\ comparison.arbitrageDetails = "cross"
    /\ RLt(Zero, comparison.arbitrageEdge)
    /\ ViableAt(1)
    /\ comparison.maxViableSize = 0

\* an arbitrage that stays viable up to the top of the search
C30_TopWitness ==
    /\ Compared
    /\ comparison.apparentArbitrage
    /\ comparison.maxViableSize = 9999

----------------------------------------------------------------------------
(* The two search loops, one pass of the loop body at a time *)

\* testSizes of findArbExhaustionPoint
testSizes == <<10, 50, 100, 250, 500, 1000, 2500, 5000, 10000>>

\* iterations counts the passes through the loop body; next is the
\* position of the for loop in testSizes
ScanInit(initialEdge) ==
    [lastViableSize |-> 0, lastEdge |-> initialEdge, next |-> 1, iterations |-> 0]

\* a pass that goes on to the next size where the loop breaks
ScanStep_SkipsFailure(sc, bookA, bookB, side, initialEdge) ==
    LET size == testSizes[sc.next]
        edgeRemaining == edgeRemainingAt(bookA, bookB, side, initialEdge, size)
    IN  [ locals |-> [ lastViableSize |-> IF RLt(Zero, edgeRemaining)
                                          THEN size ELSE sc.lastViableSize,
                       lastEdge       |-> IF RLt(Zero, edgeRemaining)
                                          THEN RDiv(edgeRemaining, Hundred) ELSE sc.lastEdge,
                       next           |-> sc.next + 1,
                       iterations     |-> sc.iterations + 1 ],
          leave  |-> FALSE ]

\* one pass through the body of the for loop; leave is the break
ScanStep(sc, bookA, bookB, side, initialEdge) ==
    LET size == testSizes[sc.next]
        edgeRemaining == edgeRemainingAt(bookA, bookB, side, initialEdge, size)
    IN  IF RLt(Zero, edgeRemaining)
        THEN [ locals |-> [ lastViableSize |-> size,
                            lastEdge       |-> RDiv(edgeRemaining, Hundred),
                            next           |-> sc.next + 1,
                            iterations     |-> sc.iterations + 1 ],
               leave  |-> FALSE ]
        ELSE [ locals |-> [sc EXCEPT !.iterations = @ + 1], leave |-> TRUE ]

\* the two return statements: locals is None after the early return
exhaustionPointOf(locals) ==
    IF locals = None
    THEN [exhaustionSize |-> 0, edgeAtExhaustion |-> Zero]
    ELSE [exhaustionSize |-> locals.lastViableSize, edgeAtExhaustion |-> locals.lastEdge]

\* books deep enough for the sizes of the ladder: asks in price order, and
\* asks with a free level behind the dear one
AskDeep == [bids |-> <<>>, asks |-> << Lvl(2, 5, 10), Lvl(1, 2, 40), Lvl(4, 5, 950) >>]
AskDeepUnsorted == [bids |-> <<>>, asks |-> << Lvl(2, 5, 10), Lvl(3, 5, 40), Lvl(0, 1, 50) >>]

SearchBooks == {EmptyBook, AskLow, AskHigh, AskLadder, AskUnsorted, AskDeep, AskDeepUnsorted}
SearchEdges == {Rat(-1, 20), Zero, Rat(1, 20), Rat(1, 5), Rat(1, 2), One}

\* findMaxViableArbSize reads the YES books of its two markets and buys;
\* findArbExhaustionPoint is handed two books and a side
InitSearch ==
    /\ pc \in {"searchCall", "scanCall"}
    /\ searchArgs \in [bookA : SearchBooks, bookB : SearchBooks,
                       initialEdge : SearchEdges, side : TradeSide]
    /\ pc = "searchCall" => searchArgs.side = "BUY"
    /\ search = None
    /\ scan = None
    /\ NoPricer /\ NoKelly /\ NoCompare /\ NoSlip /\ NoDisc
    /\ NoFetch /\ NoRoute /\ NoAnalyze

OtherThanSearch == <<pricerVars, kellyVars, compareVars, slipVars, discVars, fetchVars, routeVars, analyzeVars>>

SearchEnter ==
    /\ pc = "searchCall"
    /\ IF RLe(searchArgs.initialEdge, Zero)
       THEN pc' = "searchDone" /\ search' = search
       ELSE pc' = "searching" /\ search' = SearchInit
    /\ UNCHANGED <<searchArgs, scan, OtherThanSearch>>

SearchIterate ==
    /\ pc = "searching"
    /\ SearchRunning(search)
    /\ search' = SearchStep(search, [yes |-> searchArgs.bookA], [yes |-> searchArgs.bookB],
                            searchArgs.initialEdge)
    /\ UNCHANGED <<pc, searchArgs, scan, OtherThanSearch>>

SearchReturn ==
    /\ pc = "searching"
    /\ ~SearchRunning(search)
    /\ pc' = "searchDone"
    /\ UNCHANGED <<searchArgs, search, scan, OtherThanSearch>>

ScanEnter ==
    /\ pc = "scanCall"
    /\ IF RLe(searchArgs.initialEdge, Zero)
       THEN pc' = "scanDone" /\ scan' = scan
       ELSE pc' = "scanning" /\ scan' = ScanInit(searchArgs.initialEdge)
    /\ UNCHANGED <<searchArgs, search, OtherThanSearch>>

ScanIterate ==
    /\ pc = "scanning"
    /\ scan.next <= Len(testSizes)
    /\ LET step == ScanStep(scan, searchArgs.bookA, searchArgs.bookB,
                            searchArgs.side, searchArgs.initialEdge)
       IN  /\ scan' = step.locals
           /\ pc' = IF step.leave THEN "scanDone" ELSE "scanning"
    /\ UNCHANGED <<searchArgs, search, OtherThanSearch>>

ScanReturn ==
    /\ pc = "scanning"
    /\ scan.next > Len(testSizes)
    /\ pc' = "scanDone"
    /\ UNCHANGED <<searchArgs, search, scan, OtherThanSearch>>

NextSearch ==
    \/ SearchEnter
    \/ SearchIterate
    \/ SearchReturn
    \/ ScanEnter
    \/ ScanIterate
    \/ ScanReturn

SpecSearch == InitSearch /\ [][NextSearch]_vars

SearchWithinBounds ==
    (pc \in {"searching", "searchDone"} /\ search # None) =>
        /\ 0 <= search.low
        /\ search.low < search.high
        /\ search.high <= 10000
        /\ search.maxSize = search.low
        /\ search.iterations <= 14
        \* no further pass can begin after the 14th
        /\ (pc = "searching" /\ SearchRunning(search)) => search.iterations < 14

ScanWithinBounds ==
    (pc \in {"scanning", "scanDone"} /\ scan # None) =>
        /\ scan.iterations <= 9
        \* no further pass can begin after the 9th
        /\ (pc = "scanning" /\ scan.next <= Len(testSizes)) => scan.iterations < 9

(* C16: for every pair of books and every initial edge the binary search
   of findMaxViableArbSize makes at most 14 passes through its loop before
   it returns, with 0 <= low < high <= 10000 and maxSize = low throughout,
   and the ladder scan of findArbExhaustionPoint makes at most 9. *)
C16_LoopsBounded == SearchWithinBounds /\ ScanWithinBounds

\* a search that needed all 14 passes
C16_Witness ==
    /\ pc = "searchDone"
    /\ search # None
    /\ search.iterations = 14

\* a scan that walked the whole ladder
C16_ScanWitness ==
    /\ pc = "scanDone"
    /\ scan # None
    /\ scan.iterations = 9

\* the call of findArbExhaustionPoint has returned
Scanned == pc = "scanDone"
ExhaustionPoint == exhaustionPointOf(scan)

\* initialEdge * 100 less the combined slippagePercent at the k-th ladder size
LadderEdgeAt(k) ==
    edgeRemainingAt(searchArgs.bookA, searchArgs.bookB, searchArgs.side,
                    searchArgs.initialEdge, testSizes[k])
LadderViable(k) == RLt(Zero, LadderEdgeAt(k))
ViableLadder == {k \in 1 .. Len(testSizes) : LadderViable(k)}
\* the sizes reached before the first one that is not viable
ViableRun == {k \in 1 .. Len(testSizes) : \A j \in 1 .. k : LadderViable(j)}
Last(positions) == CHOOSE k \in positions : \A j \in positions : j <= k

\* the answer that names the last ladder position of a set of positions
AnswersPosition(positions) ==
    IF positions = {}
    THEN /\ ExhaustionPoint.exhaustionSize = 0
         /\ ExhaustionPoint.edgeAtExhaustion = searchArgs.initialEdge
    ELSE /\ ExhaustionPoint.exhaustionSize = testSizes[Last(positions)]
         /\ ExhaustionPoint.edgeAtExhaustion = RDiv(LadderEdgeAt(Last(positions)), Hundred)

SortedSide(levels, side) ==
    \A i \in 1 .. Len(levels) - 1 :
        IF side = "BUY" THEN RLe(levels[i].price, levels[i + 1].price)
        ELSE RLe(levels[i + 1].price, levels[i].price)

ScanBooksSorted ==
    /\ SortedSide(SideLevels(searchArgs.bookA, searchArgs.side), searchArgs.side)
    /\ SortedSide(SideLevels(searchArgs.bookB, searchArgs.side), searchArgs.side)

(* C26: findArbExhaustionPoint returns {0, 0} for an initialEdge <= 0, and
   otherwise the largest size of the ladder at which initialEdge * 100 less
   the combined slippagePercent is positive (0 if there is none) with the
   edge remaining at that size (initialEdge if there is none), which is
   positive. *)
C26_LargestViableLadderSize ==
    Scanned =>
        IF RLe(searchArgs.initialEdge, Zero)
        THEN ExhaustionPoint = [exhaustionSize |-> 0, edgeAtExhaustion |-> Zero]
        ELSE AnswersPosition(ViableLadder) /\ RLt(Zero, ExhaustionPoint.edgeAtExhaustion)

(* C26 as amended: findArbExhaustionPoint returns {0, 0} for an
   initialEdge <= 0, and otherwise the last size of the ladder reached
   before the first size at which the remaining edge is not positive (0 if
   size 10 fails) with the edge remaining at that size (initialEdge if size
   10 fails), which is positive; for books whose levels are in price order
   that is the largest viable size of the ladder. *)
C26_LastSizeBeforeExhaustion ==
    Scanned =>
        IF RLe(searchArgs.initialEdge, Zero)
        THEN ExhaustionPoint = [exhaustionSize |-> 0, edgeAtExhaustion |-> Zero]
        ELSE /\ AnswersPosition(ViableRun)
             /\ RLt(Zero, ExhaustionPoint.edgeAtExhaustion)
             /\ ScanBooksSorted => AnswersPosition(ViableLadder)

\* a scan that stopped inside the ladder, at size 50
C26_Witness ==
    /\ Scanned
    /\ ScanBooksSorted
    /\ RLt(Zero, searchArgs.initialEdge)
    /\ ExhaustionPoint.exhaustionSize = 50
    /\ RLt(ExhaustionPoint.edgeAtExhaustion, searchArgs.initialEdge)

\* a scan that stopped at a size with larger viable sizes behind it
C26_ViableBehindTheBreak ==
    /\ Scanned
    /\ scan # None
    /\ ViableLadder # ViableRun

----------------------------------------------------------------------------
(* findMaxSizeWithinSlippage *)

priceThresholdOf(bestPrice, side, maxSlippagePercent) ==
    LET maxPriceMove == RMul(bestPrice, RDiv(maxSlippagePercent, Hundred))
    IN  IF side = "BUY" THEN RAdd(bestPrice, maxPriceMove) ELSE RSub(bestPrice, maxPriceMove)

exceedsThreshold_AtThreshold(level, side, priceThreshold) ==
    IF side = "BUY" THEN RLe(priceThreshold, level.price) ELSE RLe(level.price, priceThreshold)

exceedsThreshold(level, side, priceThreshold) ==
    IF side = "BUY" THEN RLt(priceThreshold, level.price) ELSE RLt(level.price, priceThreshold)

\* the for loop from level i on, with its two locals; the break ends it
RECURSIVE slippageScanFrom(_, _, _, _, _)
slippageScanFrom(levels, side, priceThreshold, i, acc) ==
    IF i > Len(levels) THEN acc
    ELSE IF exceedsThreshold(levels[i], side, priceThreshold) THEN acc
    ELSE slippageScanFrom(levels, side, priceThreshold, i + 1,
                          [ cumulativeSize |-> acc.cumulativeSize + levels[i].size,
                            lastPrice      |-> levels[i].price ])

\* the whole side, whatever the tolerance
findMaxSizeWithinSlippage_WholeSide(orderBook, side, maxSlippagePercent) ==
    LET levels == SideLevels(orderBook, side)
    IN  IF Len(levels) = 0 THEN [maxSize |-> 0, priceAtMax |-> Zero]
        ELSE [maxSize |-> Depth(levels), priceAtMax |-> levels[Len(levels)].price]

findMaxSizeWithinSlippage(orderBook, side, maxSlippagePercent) ==
    LET levels == SideLevels(orderBook, side)
    IN  IF Len(levels) = 0 THEN [maxSize |-> 0, priceAtMax |-> Zero]
        ELSE LET bestPrice == levels[1].price
                 priceThreshold == priceThresholdOf(bestPrice, side, maxSlippagePercent)
                 acc == slippageScanFrom(levels, side, priceThreshold, 1,
                                         [cumulativeSize |-> 0, lastPrice |-> bestPrice])
             IN  [maxSize |-> acc.cumulativeSize, priceAtMax |-> acc.lastPrice]

MaxSlipLevels == 3

\* prices are not validated anywhere: a best price below zero
BelowZeroBooks ==
    { [bids |-> <<>>, asks |-> << Lvl(-1, 5, 1), Lvl(2, 5, 1) >>],
      [bids |-> << Lvl(2, 5, 1), Lvl(-1, 5, 1) >>, asks |-> <<>>],
      [bids |-> << Lvl(-1, 5, 1), Lvl(-2, 5, 2) >>, asks |-> <<>>],
      [bids |-> <<>>, asks |-> << Lvl(-2, 5, 1), Lvl(-1, 5, 2) >>] }

\* books with levels on one side
OneSidedBooks ==
    {[bids |-> <<>>, asks |-> l] : l \in SeqsUpTo(Levels, MaxSlipLevels)}
        \cup {[bids |-> l, asks |-> <<>>] : l \in SeqsUpTo(Levels, MaxSlipLevels)}
        \cup BelowZeroBooks

\* maxSlippagePercent: nothing stops a caller passing a negative tolerance
Tolerances == {R(-50), Zero, R(50)}

InitSlippage ==
    /\ pc = "slippage"
    /\ book \in OneSidedBooks
    /\ tolerance \in [side : TradeSide, maxSlippagePercent : Tolerances]
    /\ slipOut = None
    /\ input = None /\ result = None /\ result2 = None /\ payoff = None
    /\ NoKelly /\ NoCompare /\ NoSearch /\ NoDisc
    /\ NoFetch /\ NoRoute /\ NoAnalyze

Slippage ==
    /\ pc = "slippage"
    /\ slipOut' = findMaxSizeWithinSlippage(book, tolerance.side, tolerance.maxSlippagePercent)
    /\ pc' = "slippageDone"
    /\ UNCHANGED <<tolerance, pricerVars, kellyVars, compareVars, searchVars, discVars, fetchVars, routeVars, analyzeVars>>

\* an order of the size the solver answered, priced on the same book
PriceAtMax ==
    /\ pc = "slippageDone"
    /\ input' = [side |-> tolerance.side, outcome |-> "YES", size |-> slipOut.maxSize]
    /\ result' = calculateExecutionPrice(book, input')
    /\ pc' = "slippagePriced"
    /\ UNCHANGED <<book, result2, payoff, tolerance, slipOut,
                   kellyVars, compareVars, searchVars, discVars, fetchVars, routeVars,
                   analyzeVars>>

NextSlippage == Slippage \/ PriceAtMax

SpecSlippage == InitSlippage /\ [][NextSlippage]_vars

SlipLevels == SideLevels(book, tolerance.side)
SlipThreshold ==
    IF tolerance.side = "BUY"
    THEN RAdd(SlipLevels[1].price,
              RDiv(RMul(SlipLevels[1].price, tolerance.maxSlippagePercent), Hundred))
    ELSE RSub(SlipLevels[1].price,
              RDiv(RMul(SlipLevels[1].price, tolerance.maxSlippagePercent), Hundred))

\* the level's price does not exceed the threshold: not above it for a
\* BUY, not below it for a SELL
WithinThreshold(level) ==
    IF tolerance.side = "BUY"
    THEN RLe(level.price, SlipThreshold)
    ELSE RLe(SlipThreshold, level.price)

\* the first k levels are all within the threshold
PrefixWithin(k) == \A i \in 1 .. k : WithinThreshold(SlipLevels[i])

LongestPrefixWithin ==
    CHOOSE k \in 0 .. Len(SlipLevels) :
        /\ PrefixWithin(k)
        /\ k < Len(SlipLevels) => ~WithinThreshold(SlipLevels[k + 1])

(* C18: findMaxSizeWithinSlippage returns {0, 0} when the side it reads has
   no levels; otherwise maxSize is the total size of the longest prefix of
   levels whose prices do not exceed bestPrice +/- bestPrice *
   maxSlippagePercent / 100 (a level exactly at the threshold counts, the
   first level beyond it and all later ones do not), and priceAtMax is the
   price of the last level of that prefix. *)
C18_LongestPrefixWithinSlippage ==
    pc = "slippageDone" =>
        IF Len(SlipLevels) = 0
        THEN slipOut = [maxSize |-> 0, priceAtMax |-> Zero]
        ELSE /\ slipOut.maxSize = DepthUpTo(SlipLevels, LongestPrefixWithin)
             /\ LongestPrefixWithin >= 1
                    => slipOut.priceAtMax = SlipLevels[LongestPrefixWithin].price

\* the prefix ends on a level exactly at the threshold; a level beyond it
\* and a later level within it are left out
C18_Witness ==
    /\ pc = "slippageDone"
    /\ Len(SlipLevels) = 3
    /\ LongestPrefixWithin = 1
    /\ SlipLevels[1].price = SlipThreshold
    /\ ~WithinThreshold(SlipLevels[2])
    /\ WithinThreshold(SlipLevels[3])
    /\ SlipLevels[3].size > 0
    /\ slipOut.maxSize = SlipLevels[1].size
    /\ slipOut.maxSize > 0

SlipSizesPositive == \A i \in 1 .. Len(SlipLevels) : SlipLevels[i].size > 0

\* what the claim asks of the book, the side and the tolerance
SolverPreconditions ==
    /\ Len(SlipLevels) > 0
    /\ SortedSide(SlipLevels, tolerance.side)
    /\ SlipSizesPositive
    /\ RLe(Zero, tolerance.maxSlippagePercent)

(* C29: the slippage solver and the pricer agree: on a book in price order
   with positive sizes, for a side that has levels and a maxSlippagePercent
   >= 0, an order of the size maxSize the solver returns is filled
   completely (partialFill = false), its worstPrice is priceAtMax and its
   slippagePercent is at most maxSlippagePercent. *)
C29_SolverAgreesWithPricer ==
    (pc = "slippagePriced" /\ SolverPreconditions) =>
        /\ result.requestedSize = slipOut.maxSize
        /\ result.filledSize = slipOut.maxSize
        /\ ~result.partialFill
        /\ result.worstPrice = slipOut.priceAtMax
        /\ RLe(result.slippagePercent, tolerance.maxSlippagePercent)

\* a best price below zero puts the first level beyond the threshold: the
\* solver answers size 0 and the pricer fills nothing
C29_NothingWithinWitness ==
    /\ pc = "slippagePriced"
    /\ SolverPreconditions
    /\ RLt(SlipLevels[1].price, Zero)
    /\ slipOut.maxSize = 0
    /\ result.filledSize = 0

\* two levels within a 50% tolerance and a third beyond it: the order
\* walks both levels and its slippage stays below the tolerance
C29_Witness ==
    /\ pc = "slippagePriced"
    /\ SolverPreconditions
    /\ Len(SlipLevels) = 3
    /\ LongestPrefixWithin = 2
    /\ Len(result.fills) = 2
    /\ RLt(Zero, result.slippagePercent)
    /\ RLt(result.slippagePercent, tolerance.maxSlippagePercent)

----------------------------------------------------------------------------
(* DiscrepancyEngine *)

MIN_SPREAD_THRESHOLD == Rat(3, 100)
HIGH_CONFIDENCE_THRESHOLD == Rat(5, 100)

\* A question is the sequence of its space-separated words.  The words of
\* the questions explored, and what generateSlug's steps do to each:
toLowerCase(word) ==
    CASE word = "Will" -> "will"
      [] word = "Trump" -> "trump"
      [] OTHER -> word

\* replace(/[^a-z0-9\s]/g, "")
stripNonAlphanumeric(word) ==
    CASE word = "win?" -> "win"
      [] OTHER -> word

wordLength(word) ==
    CASE word = "win" -> 3
      [] word \in {"will", "2028"} -> 4
      [] word = "trump" -> 5

\* position in the order Array.prototype.sort puts the words in
wordRank(word) ==
    CASE word = "2028" -> 1
      [] word = "trump" -> 2
      [] word = "will" -> 3
      [] word = "win" -> 4

RECURSIVE sortWords(_)
sortWords(words) ==
    IF Len(words) = 0 THEN <<>>
    ELSE LET rest == sortWords(Tail(words))
             before == SelectSeq(rest, LAMBDA w : wordRank(w) <= wordRank(Head(words)))
             after == SelectSeq(rest, LAMBDA w : wordRank(w) > wordRank(Head(words)))
         IN  before \o << Head(words) >> \o after

\* The slug is the sequence of words join("-") glues together; the
\* questions explored are far shorter than the 100 characters kept.
generateSlug(question) ==
    LET cleaned == [i \in 1 .. Len(question) |->
                        stripNonAlphanumeric(toLowerCase(question[i]))]
    IN  sortWords(SelectSeq(cleaned, LAMBDA w : wordLength(w) > 3))

RECURSIVE groupSlugs(_)
\* the keys of the Map, in insertion order
groupSlugs(ms) ==
    IF Len(ms) = 0 THEN <<>>
    ELSE LET earlier == groupSlugs(SubSeq(ms, 1, Len(ms) - 1))
             slug == generateSlug(ms[Len(ms)].question)
         IN  IF \E i \in 1 .. Len(earlier) : earlier[i] = slug
             THEN earlier
             ELSE Append(earlier, slug)

groupSimilarMarkets(ms) ==
    LET slugs == groupSlugs(ms)
        groupOf(slug) ==
            LET members == SelectSeq(ms, LAMBDA m : generateSlug(m.question) = slug)
            IN  [eventSlug |-> slug, eventTitle |-> members[1].question, markets |-> members]
        all == [i \in 1 .. Len(slugs) |-> groupOf(slugs[i])]
    IN  SelectSeq(all, LAMBDA g : Len(g.markets) > 1)

RECURSIVE MinOver(_, _)
MinOver(xs, k) == IF k = 1 THEN xs[1] ELSE RMin(MinOver(xs, k - 1), xs[k])
RECURSIVE MaxOver(_, _)
MaxOver(xs, k) == IF k = 1 THEN xs[1] ELSE RMax(MaxOver(xs, k - 1), xs[k])

\* volume and liquidity are optional: None when missing, else <<value>>
Given(field) == field # None
ValueOf(field) == field[1]

RECURSIVE SumOfField(_, _)
SumOfField(fields, k) ==
    IF k = 0 THEN 0
    ELSE SumOfField(fields, k - 1) + (IF Given(fields[k]) THEN ValueOf(fields[k]) ELSE 0)

calculateConfidence_SpreadOnly(ms, spread) ==
    IF RLe(HIGH_CONFIDENCE_THRESHOLD, spread) THEN Rat(2, 5) ELSE Rat(1, 5)

calculateConfidence(ms, spread) ==
    LET base == IF RLe(HIGH_CONFIDENCE_THRESHOLD, spread) THEN Rat(2, 5)
                ELSE IF RLe(MIN_SPREAD_THRESHOLD, spread) THEN Rat(1, 5)
                ELSE Zero
        marketsWithLiquidity ==
            SelectSeq(ms, LAMBDA m : Given(m.liquidity) /\ ValueOf(m.liquidity) > 0)
        avgLiquidity ==
            Rat(SumOfField([i \in 1 .. Len(marketsWithLiquidity) |->
                                marketsWithLiquidity[i].liquidity], Len(marketsWithLiquidity)),
                Len(marketsWithLiquidity))
        liquidityBonus ==
            IF Len(marketsWithLiquidity) = Len(ms)
            THEN RAdd(Rat(1, 5),
                      IF RLt(R(100000), avgLiquidity) THEN Rat(1, 5)
                      ELSE IF RLt(R(10000), avgLiquidity) THEN Rat(1, 10)
                      ELSE Zero)
            ELSE Zero
        marketsWithVolume ==
            SelectSeq(ms, LAMBDA m : Given(m.volume) /\ ValueOf(m.volume) > 0)
        avgVolume ==
            Rat(SumOfField([i \in 1 .. Len(marketsWithVolume) |->
                                marketsWithVolume[i].volume], Len(marketsWithVolume)),
                Len(marketsWithVolume))
        volumeBonus ==
            IF Len(marketsWithVolume) > 0
            THEN IF RLt(R(1000000), avgVolume) THEN Rat(1, 5)
                 ELSE IF RLt(R(100000), avgVolume) THEN Rat(1, 10)
                 ELSE Zero
            ELSE Zero
    IN  RMin(One, RAdd(RAdd(base, liquidityBonus), volumeBonus))

spreadOf_MaxOnly(yesPrices) == MaxOver(yesPrices, Len(yesPrices))

spreadOf(yesPrices) ==
    RSub(MaxOver(yesPrices, Len(yesPrices)), MinOver(yesPrices, Len(yesPrices)))

NoAnalysis == [isNull |-> TRUE]

\* news is what newsService.searchNews answers for the group's title
analyzeGroup(group, news) ==
    LET ms == group.markets
        yesPrices == [i \in 1 .. Len(ms) |-> ms[i].yesProbability]
        minYes == MinOver(yesPrices, Len(yesPrices))
        maxYes == MaxOver(yesPrices, Len(yesPrices))
        spread == spreadOf(yesPrices)
    IN  IF RLt(spread, MIN_SPREAD_THRESHOLD) THEN NoAnalysis
        ELSE [ isNull        |-> FALSE,
               eventSlug     |-> group.eventSlug,
               eventTitle    |-> group.eventTitle,
               markets       |-> [i \in 1 .. Len(ms) |->
                                     [ platform       |-> ms[i].platform,
                                       yesProbability |-> ms[i].yesProbability,
                                       volume         |-> ms[i].volume,
                                       liquidity      |-> ms[i].liquidity ]],
               maxSpread     |-> spread,
               spreadPercent |-> RMul(RDiv(spread, RDiv(RAdd(maxYes, minYes), R(2))), Hundred),
               confidence    |-> calculateConfidence(ms, spread),
               likelyDrivers |-> SubSeq(news, 1, Min(3, Len(news))) ]

\* discrepancies.sort((a, b) => b.maxSpread - a.maxSpread): a stable sort
sortBySpread_AsPushed(discrepancies) == discrepancies

RECURSIVE sortBySpread(_)
sortBySpread(discrepancies) ==
    IF Len(discrepancies) = 0 THEN <<>>
    ELSE LET n == Len(discrepancies)
             last == discrepancies[n]
             rest == sortBySpread(SubSeq(discrepancies, 1, n - 1))
             before == SelectSeq(rest, LAMBDA d : RLe(last.maxSpread, d.maxSpread))
             after == SelectSeq(rest, LAMBDA d : RLt(d.maxSpread, last.maxSpread))
         IN  before \o << last >> \o after

----------------------------------------------------------------------------
(* Calls of detectDiscrepancies *)

MaxMarkets == 4

NormalizedMarket(question, platform, p, q, volume, liquidity) ==
    [ question       |-> question,
      platform       |-> platform,
      yesProbability |-> Rat(p, q),
      volume         |-> volume,
      liquidity      |-> liquidity ]

\* two wordings of one event, a second event, and a question with no word
\* longer than three letters (its slug is empty)
WillTrumpWin == <<"Will", "Trump", "win?">>
TrumpWillWin == <<"trump", "will", "win">>
WillWin2028 == <<"Will", "win", "2028">>
Win == <<"win?">>

MarketPool ==
    { NormalizedMarket(WillTrumpWin, "POLYMARKET", 50, 100, <<2000000>>, <<200000>>),
      NormalizedMarket(TrumpWillWin, "KALSHI", 53, 100, None, None),
      NormalizedMarket(TrumpWillWin, "PREDICTIT", 51, 100, <<150000>>, <<20000>>),
      NormalizedMarket(WillWin2028, "POLYMARKET", 0, 1, <<150000>>, <<20000>>),
      NormalizedMarket(WillWin2028, "KALSHI", 1, 1, <<0>>, <<5000>>),
      NormalizedMarket(Win, "METACULUS", 20, 100, None, <<0>>),
      NormalizedMarket(Win, "POLYMARKET", 30, 100, <<2000000>>, <<200000>>),
      \* the engine takes the probabilities it is given: one above 1
      NormalizedMarket(WillTrumpWin, "KALSHI", 120, 100, <<2000000>>, <<200000>>) }

MarketLists == SeqsUpTo(MarketPool, MaxMarkets)

\* answers of newsService.searchNews: none, or more than the three kept
NewsAnswers == { <<>>, <<"news1", "news2", "news3", "news4">> }

InitDiscrepancy ==
    /\ pc = "detect"
    /\ markets \in MarketLists
    /\ discOut = None
    /\ NoPricer /\ NoKelly /\ NoCompare /\ NoSearch /\ NoSlip
    /\ NoFetch /\ NoRoute /\ NoAnalyze

OtherThanDiscrepancy ==
    <<pricerVars, kellyVars, compareVars, searchVars, slipVars, fetchVars, routeVars, analyzeVars>>

\* line 19: the groups are formed and the loop is about to start
DetectEnter ==
    /\ pc = "detect"
    /\ discOut' = [ groups        |-> groupSimilarMarkets(markets),
                    next          |-> 1,
                    discrepancies |-> <<>>,
                    returned      |-> None ]
    /\ pc' = "detecting"
    /\ UNCHANGED <<markets, OtherThanDiscrepancy>>

\* one pass through the for loop, the awaited analysis included
DetectAnalyse ==
    /\ pc = "detecting"
    /\ discOut.next <= Len(discOut.groups)
    /\ LET group == discOut.groups[discOut.next]
       IN  IF Len(group.markets) < 2
           THEN discOut' = [discOut EXCEPT !.next = @ + 1]
           ELSE \E news \in NewsAnswers :
                    LET analysis == analyzeGroup(group, news)
                    IN  IF ~analysis.isNull /\ RLe(MIN_SPREAD_THRESHOLD, analysis.maxSpread)
                        THEN discOut' = [discOut EXCEPT !.next = @ + 1,
                                                        !.discrepancies = Append(@, analysis)]
                        ELSE discOut' = [discOut EXCEPT !.next = @ + 1]
    /\ UNCHANGED <<pc, markets, OtherThanDiscrepancy>>

\* sort sorts the array in place and returns it
DetectReturn ==
    /\ pc = "detecting"
    /\ discOut.next > Len(discOut.groups)
    /\ discOut' = [discOut EXCEPT !.discrepancies = sortBySpread(@),
                                  !.returned = sortBySpread(discOut.discrepancies)]
    /\ pc' = "detectDone"
    /\ UNCHANGED <<markets, OtherThanDiscrepancy>>

NextDiscrepancy ==
    \/ DetectEnter
    \/ DetectAnalyse
    \/ DetectReturn

SpecDiscrepancy == InitDiscrepancy /\ [][NextDiscrepancy]_vars

Detected == pc = "detectDone"

\* the input markets of a slug, in input order
MarketsOfSlug(slug) == SelectSeq(markets, LAMBDA m : generateSlug(m.question) = slug)
YesOf(ms) == {ms[i].yesProbability : i \in 1 .. Len(ms)}
LargestOf(S) == CHOOSE x \in S : \A y \in S : RLe(y, x)
SmallestOf(S) == CHOOSE x \in S : \A y \in S : RLe(x, y)
SpreadOfSlug(slug) ==
    RSub(LargestOf(YesOf(MarketsOfSlug(slug))), SmallestOf(YesOf(MarketsOfSlug(slug))))
ProbabilitiesInUnitRange ==
    \A i \in 1 .. Len(markets) :
        RLe(Zero, markets[i].yesProbability) /\ RLe(markets[i].yesProbability, One)
ReturnedSlugs == {discOut.returned[i].eventSlug : i \in 1 .. Len(discOut.returned)}

(* C19: every result detectDiscrepancies returns covers the two or more
   input markets of one slug, its maxSpread is the largest minus the
   smallest yesProbability of those markets and is at least 0.03, and at
   most 1 when every input yesProbability lies in [0,1]; no slug with
   fewer than two markets or a spread below 0.03 has a result. *)
C19_ResultsCoverGroups ==
    Detected =>
        /\ \A i \in 1 .. Len(discOut.returned) :
              LET r == discOut.returned[i]
                  members == MarketsOfSlug(r.eventSlug)
              IN  /\ Len(r.markets) >= 2
                  /\ Len(r.markets) = Len(members)
                  /\ \A k \in 1 .. Len(members) :
                        /\ r.markets[k].yesProbability = members[k].yesProbability
                        /\ r.markets[k].platform = members[k].platform
                  /\ r.maxSpread = SpreadOfSlug(r.eventSlug)
                  /\ RLe(Rat(3, 100), r.maxSpread)
                  /\ ProbabilitiesInUnitRange => RLe(r.maxSpread, One)
        /\ \A i \in 1 .. Len(markets) :
              LET slug == generateSlug(markets[i].question)
              IN  (Len(MarketsOfSlug(slug)) < 2 \/ RLt(SpreadOfSlug(slug), Rat(3, 100)))
                      => slug \notin ReturnedSlugs

\* a group at exactly 0.03 returned, a lone market and a group below 0.03 not
C19_Witness ==
    /\ Detected
    /\ ProbabilitiesInUnitRange
    /\ Len(discOut.returned) = 1
    /\ discOut.returned[1].maxSpread = Rat(3, 100)
    /\ Len(markets) = MaxMarkets
    /\ \E i \in 1 .. Len(markets) : Len(MarketsOfSlug(generateSlug(markets[i].question))) = 1

(* C20: the sequence detectDiscrepancies returns is in descending order of
   maxSpread: each result's maxSpread is at least that of the next one,
   whatever the input list and the order the groups were analysed in. *)
C20_SortedDescending ==
    Detected =>
        \A i \in 1 .. Len(discOut.returned) - 1 :
            RLe(discOut.returned[i + 1].maxSpread, discOut.returned[i].maxSpread)

\* the group analysed first has the smaller spread and is returned second
C20_Witness ==
    /\ Detected
    /\ Len(discOut.returned) = 2
    /\ discOut.returned[1].eventSlug = discOut.groups[2].eventSlug
    /\ discOut.returned[2].eventSlug = discOut.groups[1].eventSlug
    /\ RLt(discOut.returned[2].maxSpread, discOut.returned[1].maxSpread)

\* the score of a group, term by term from the input markets of its slug
HasLiquidity(m) == m.liquidity # None /\ m.liquidity[1] > 0
HasVolume(m) == m.volume # None /\ m.volume[1] > 0
RECURSIVE TotalOver(_, _, _)
TotalOver(ms, field, k) ==
    IF k = 0 THEN 0
    ELSE TotalOver(ms, field, k - 1) + (IF field = "liquidity" THEN ms[k].liquidity[1]
                                        ELSE ms[k].volume[1])
SpreadTerm(spread) == IF RLe(Rat(5, 100), spread) THEN Rat(4, 10) ELSE Rat(2, 10)
LiquidityTerm(ms) ==
    IF \A i \in 1 .. Len(ms) : HasLiquidity(ms[i])
    THEN LET total == TotalOver(ms, "liquidity", Len(ms))
         IN  IF total > 100000 * Len(ms) THEN Rat(4, 10)
             ELSE IF total > 10000 * Len(ms) THEN Rat(3, 10)
             ELSE Rat(2, 10)
    ELSE Zero
VolumeTerm(ms) ==
    LET with == SelectSeq(ms, HasVolume)
        total == TotalOver(with, "volume", Len(with))
    IN  IF Len(with) = 0 THEN Zero
        ELSE IF total > 1000000 * Len(with) THEN Rat(2, 10)
        ELSE IF total > 100000 * Len(with) THEN Rat(1, 10)
        ELSE Zero
AdditiveScore(slug) ==
    LET ms == MarketsOfSlug(slug)
    IN  RAdd(SpreadTerm(SpreadOfSlug(slug)), RAdd(LiquidityTerm(ms), VolumeTerm(ms)))

(* C21: the confidence of every returned result is the additive score of
   its group capped at 1 -- 0.4 for a spread of at least 0.05, else 0.2;
   0.2 more when every market has liquidity above 0, and then 0.2 or 0.1
   more for an average liquidity above 100,000 or 10,000; 0.2 or 0.1 for
   an average volume, over the markets with volume above 0, above
   1,000,000 or 100,000 -- and so lies in [0,1]. *)
C21_ConfidenceScore ==
    Detected =>
        \A i \in 1 .. Len(discOut.returned) :
            LET r == discOut.returned[i]
                score == AdditiveScore(r.eventSlug)
            IN  /\ r.confidence = (IF RLe(One, score) THEN One ELSE score)
                /\ RLe(Zero, r.confidence)
                /\ RLe(r.confidence, One)

\* one result with every bonus, one with the liquidity bonus withheld
C21_Witness ==
    /\ Detected
    /\ Len(discOut.returned) = 2
    /\ \E i \in 1 .. 2 : discOut.returned[i].confidence = One
    /\ \E i \in 1 .. 2 :
          /\ discOut.returned[i].confidence = Rat(6, 10)
          /\ \E k \in 1 .. Len(discOut.returned[i].markets) :
                discOut.returned[i].markets[k].liquidity = <<0>>

----------------------------------------------------------------------------
(* Two callers of detectDiscrepancies on the one exported engine *)

Callers == {1, 2}
OtherCaller(c) == 3 - c

\* line 21: each call makes its own array.  Arrays are kept in a store by
\* identity, so that two calls writing one array would show.
discrepanciesOf_OnEngine(c) == 1

discrepanciesOf(c) == c

PoolMarket(question, p) ==
    CHOOSE m \in MarketPool : m.question = question /\ m.yesProbability = Rat(p, 100)

ConcurrentLists ==
    { \* two groups, the smaller spread first
      << PoolMarket(WillTrumpWin, 50), PoolMarket(TrumpWillWin, 53),
         PoolMarket(WillWin2028, 0), PoolMarket(WillWin2028, 100) >>,
      \* two groups, the larger spread first
      << PoolMarket(WillTrumpWin, 50), PoolMarket(Win, 20),
         PoolMarket(WillTrumpWin, 120), PoolMarket(Win, 30) >>,
      \* one group, below the threshold
      << PoolMarket(WillTrumpWin, 50), PoolMarket(TrumpWillWin, 51) >>,
      <<>> }

\* at is where the call stands; heard is the news answers it has been
\* given; overlapped records that the other call took a step while this
\* one was under way (the program keeps neither)
NewCall ==
    [ at |-> "start", groups |-> <<>>, next |-> 1, pending |-> NoAnalysis,
      heard |-> <<>>, returned |-> None, overlapped |-> FALSE ]

UnderWay(call) == call.at \notin {"start", "done"}

InitConcurrent ==
    /\ pc = "callers"
    /\ markets \in [Callers -> ConcurrentLists]
    /\ discOut = [calls |-> [c \in Callers |-> NewCall], arrays |-> [c \in Callers |-> <<>>]]
    /\ NoPricer /\ NoKelly /\ NoCompare /\ NoSearch /\ NoSlip
    /\ NoFetch /\ NoRoute /\ NoAnalyze

\* a step of caller c: its call and its array change, and the other call
\* learns whether it was overtaken
StepOf(c, call, array) ==
    /\ discOut' =
          [ calls  |-> [d \in Callers |->
                          IF d = c
                          THEN [call EXCEPT !.overlapped =
                                    @ \/ UnderWay(discOut.calls[OtherCaller(c)])]
                          ELSE discOut.calls[d]],
            arrays |-> [discOut.arrays EXCEPT ![discrepanciesOf(c)] = array] ]
    /\ UNCHANGED <<pc, markets, OtherThanDiscrepancy>>

ArrayOf(c) == discOut.arrays[discrepanciesOf(c)]

\* lines 19-21
CallerEnter(c) ==
    /\ discOut.calls[c].at = "start"
    /\ StepOf(c, [discOut.calls[c] EXCEPT !.at = "loop",
                                          !.groups = groupSimilarMarkets(markets[c])],
              <<>>)

\* lines 23-26 and 78-94: up to the await on the news, or to the null
CallerAnalyse(c) ==
    LET call == discOut.calls[c]
    IN  /\ call.at = "loop"
        /\ call.next <= Len(call.groups)
        /\ LET group == call.groups[call.next]
           IN  IF Len(group.markets) < 2
               THEN StepOf(c, [call EXCEPT !.next = @ + 1], ArrayOf(c))
               ELSE IF analyzeGroup(group, <<>>).isNull
               THEN StepOf(c, [call EXCEPT !.at = "resume", !.pending = NoAnalysis], ArrayOf(c))
               ELSE StepOf(c, [call EXCEPT !.at = "awaitNews"], ArrayOf(c))

\* lines 94-109: the news answer arrives and the analysis is built
CallerNews(c) ==
    LET call == discOut.calls[c]
    IN  /\ call.at = "awaitNews"
        /\ \E news \in NewsAnswers :
              StepOf(c, [call EXCEPT !.at = "resume",
                                     !.pending = analyzeGroup(call.groups[call.next], news),
                                     !.heard = Append(@, news)],
                     ArrayOf(c))

\* lines 26-29: the awaited analysis is back
CallerResume(c) ==
    LET call == discOut.calls[c]
        analysis == call.pending
    IN  /\ call.at = "resume"
        /\ StepOf(c, [call EXCEPT !.at = "loop", !.next = @ + 1, !.pending = NoAnalysis],
                  IF ~analysis.isNull /\ RLe(MIN_SPREAD_THRESHOLD, analysis.maxSpread)
                  THEN Append(ArrayOf(c), analysis)
                  ELSE ArrayOf(c))

\* line 33
CallerReturn(c) ==
    LET call == discOut.calls[c]
    IN  /\ call.at = "loop"
        /\ call.next > Len(call.groups)
        /\ StepOf(c, [call EXCEPT !.at = "done", !.returned = sortBySpread(ArrayOf(c))],
                  sortBySpread(ArrayOf(c)))

NextConcurrent ==
    \E c \in Callers :
        \/ CallerEnter(c)
        \/ CallerAnalyse(c)
        \/ CallerNews(c)
        \/ CallerResume(c)
        \/ CallerReturn(c)

SpecConcurrent == InitConcurrent /\ [][NextConcurrent]_vars

\* the call run alone: the groups in order, each that reaches the news
\* taking the next of the answers heard
RECURSIVE AloneFrom(_, _, _, _)
AloneFrom(groups, k, heard, found) ==
    IF k > Len(groups) THEN sortBySpread(found)
    ELSE IF Len(groups[k].markets) < 2 \/ analyzeGroup(groups[k], <<>>).isNull
    THEN AloneFrom(groups, k + 1, heard, found)
    ELSE AloneFrom(groups, k + 1, Tail(heard),
                   Append(found, analyzeGroup(groups[k], Head(heard))))

RunAlone(ms, heard) == AloneFrom(groupSimilarMarkets(ms), 1, heard, <<>>)

(* C22: of two calls of detectDiscrepancies on the shared engine,
   interleaved at their await points, each returns what it would return
   run alone with the news answers it was given. *)
C22_CallersDoNotInterfere ==
    \A c \in Callers :
        discOut.calls[c].at = "done" =>
            discOut.calls[c].returned = RunAlone(markets[c], discOut.calls[c].heard)

\* both calls overlapped the other and both returned two results
C22_Witness ==
    \A c \in Callers :
        /\ discOut.calls[c].at = "done"
        /\ discOut.calls[c].overlapped
        /\ Len(discOut.calls[c].returned) = 2

----------------------------------------------------------------------------
(* CLOB adapter: fetchOrderBook and fetchMarketOrderBooks *)

\* The exchange sends prices and sizes as text.  parseFloat on the texts
\* explored; text that is no number gives NaN.
parseFloat(text) ==
    CASE text \in {"0.40", "0.4"} -> Rat(2, 5)
      [] text = "0.60" -> Rat(3, 5)
      [] text = "1" -> One
      [] text = "0" -> Zero
      [] text = "-1" -> R(-1)
      [] OTHER -> NaN

parseLevel(entry) == [price |-> parseFloat(entry.price), size |-> parseFloat(entry.size)]

\* .map(...).filter((level) => level.size > 0)
parsedLevels(entries) ==
    SelectSeq([i \in 1 .. Len(entries) |-> parseLevel(entries[i])],
              LAMBDA level : JsLt(Zero, level.size))

\* the comparators: b.price - a.price for bids, a.price - b.price for asks
comparePrices(a, b, side) ==
    IF side = "bids" THEN JsSub(b.price, a.price) ELSE JsSub(a.price, b.price)

\* a stable sort under a comparator that orders the levels
RECURSIVE sortLevels(_, _)
sortLevels(levels, side) ==
    IF Len(levels) = 0 THEN <<>>
    ELSE LET n == Len(levels)
             last == levels[n]
             rest == sortLevels(SubSeq(levels, 1, n - 1), side)
             before == SelectSeq(rest, LAMBDA l : ~JsLt(Zero, comparePrices(l, last, side)))
             after == SelectSeq(rest, LAMBDA l : JsLt(Zero, comparePrices(l, last, side)))
         IN  before \o << last >> \o after

\* Array.prototype.sort: when the comparator answers NaN for some pair it
\* is not a consistent comparator and the order of the result is
\* implementation-defined; any order of the levels can come back.
sortOutcomes(levels, side) ==
    IF \E i, j \in 1 .. Len(levels) : i # j /\ IsNaN(comparePrices(levels[i], levels[j], side))
    THEN {[i \in 1 .. Len(levels) |-> levels[f[i]]] : f \in Permutations(1 .. Len(levels))}
    ELSE {sortLevels(levels, side)}

Thrown == [thrown |-> TRUE]

\* what a fetchOrderBook call can give back for an answer of the exchange
fetchOrderBook(answer) ==
    IF ~answer.ok THEN {Thrown}
    ELSE {[thrown |-> FALSE, bids |-> b, asks |-> a] :
              <<b, a>> \in sortOutcomes(parsedLevels(answer.bids), "bids")
                             \X sortOutcomes(parsedLevels(answer.asks), "asks")}

\* metadata is the answer to fetchMarket: failed, or the tokens it lists
fetchMarketOrderBooks(metadata, yesAnswer, noAnswer) ==
    IF metadata = "failed" \/ metadata \in {"noYesToken", "noNoToken"} THEN {Thrown}
    ELSE {IF y.thrown \/ n.thrown THEN Thrown
          ELSE [thrown |-> FALSE, yes |-> y, no |-> n] :
              <<y, n>> \in fetchOrderBook(yesAnswer) \X fetchOrderBook(noAnswer)}

MaxPayloadLevels == 2

PayloadEntries == [price : {"0.40", "0.60", "abc"}, size : {"1", "0", "-1", "abc"}]

BookAnswers ==
    {[ok |-> FALSE, bids |-> <<>>, asks |-> <<>>]}
        \cup {[ok |-> TRUE, bids |-> b, asks |-> a] :
                <<b, a>> \in {p \in SeqsUpTo(PayloadEntries, MaxPayloadLevels)
                                      \X SeqsUpTo(PayloadEntries, MaxPayloadLevels) :
                                Len(p[1]) + Len(p[2]) <= MaxPayloadLevels}}

Entry(price, size) == [price |-> price, size |-> size]

\* the book answers tried behind fetchMarketOrderBooks
FewBookAnswers ==
    { [ok |-> FALSE, bids |-> <<>>, asks |-> <<>>],
      [ok |-> TRUE, bids |-> <<>>, asks |-> <<>>],
      [ok |-> TRUE, bids |-> << Entry("0.40", "1") >>,
                    asks |-> << Entry("0.60", "1"), Entry("0.4", "0") >>] }

InitFetch ==
    /\ \/ pc = "fetchBook" /\ payload \in BookAnswers
       \/ /\ pc = "fetchMarket"
          /\ payload \in [ metadata : {"failed", "noYesToken", "noNoToken", "bothTokens"},
                           yes : FewBookAnswers, no : FewBookAnswers ]
    /\ fetched = None
    /\ NoPricer /\ NoKelly /\ NoCompare /\ NoSearch /\ NoSlip /\ NoDisc /\ NoRoute
    /\ NoAnalyze

OtherThanFetch ==
    <<pricerVars, kellyVars, compareVars, searchVars, slipVars, discVars, routeVars,
      analyzeVars>>

FetchOrderBook ==
    /\ pc = "fetchBook"
    /\ fetched' \in fetchOrderBook(payload)
    /\ pc' = "fetchedBook"
    /\ UNCHANGED <<payload, OtherThanFetch>>

FetchMarketOrderBooks ==
    /\ pc = "fetchMarket"
    /\ fetched' \in fetchMarketOrderBooks(payload.metadata, payload.yes, payload.no)
    /\ pc' = "fetchedMarket"
    /\ UNCHANGED <<payload, OtherThanFetch>>

NextFetch ==
    \/ FetchOrderBook
    \/ FetchMarketOrderBooks

SpecFetch == InitFetch /\ [][NextFetch]_vars

\* >= of two numbers, false when either is NaN
JsGe(a, b) == ~IsNaN(a) /\ ~IsNaN(b) /\ ~JsLt(a, b)
DescendingPrices(levels) ==
    \A i \in 1 .. Len(levels) - 1 : JsGe(levels[i].price, levels[i + 1].price)
AscendingPrices(levels) ==
    \A i \in 1 .. Len(levels) - 1 : JsGe(levels[i + 1].price, levels[i].price)
SizesPositive(levels) == \A i \in 1 .. Len(levels) : JsLt(Zero, levels[i].size)
MeetsPricerPreconditions(b) ==
    /\ DescendingPrices(b.bids) /\ AscendingPrices(b.asks)
    /\ SizesPositive(b.bids) /\ SizesPositive(b.asks)

(* C23: whatever the exchange answers, a book fetchOrderBook returns has
   its bids in descending and its asks in ascending price order and no
   level whose size is zero, negative or unparsable; fetchMarketOrderBooks
   returns both books or fails as a whole. *)
C23_FetchedBooksWellFormed ==
    /\ (pc = "fetchedBook" /\ ~fetched.thrown) => MeetsPricerPreconditions(fetched)
    /\ (pc = "fetchedMarket" /\ ~fetched.thrown) =>
           /\ ~fetched.yes.thrown /\ ~fetched.no.thrown
           /\ payload.yes.ok /\ payload.no.ok /\ payload.metadata = "bothTokens"

\* What does hold: the sizes, the both-or-nothing pair, and the order when
\* every price of the answer parses.
PricesParse(answer) ==
    /\ \A i \in 1 .. Len(answer.bids) : ~IsNaN(parseFloat(answer.bids[i].price))
    /\ \A i \in 1 .. Len(answer.asks) : ~IsNaN(parseFloat(answer.asks[i].price))

C23_ParsablePricesWellFormed ==
    /\ (pc = "fetchedBook" /\ ~fetched.thrown) =>
           /\ SizesPositive(fetched.bids) /\ SizesPositive(fetched.asks)
           /\ PricesParse(payload) => MeetsPricerPreconditions(fetched)
    /\ (pc = "fetchedMarket" /\ ~fetched.thrown) =>
           /\ ~fetched.yes.thrown /\ ~fetched.no.thrown
           /\ payload.yes.ok /\ payload.no.ok /\ payload.metadata = "bothTokens"

----------------------------------------------------------------------------
(* A book analysed, then priced: the guarded divisions *)

InitGuards ==
    /\ \E r \in Requests : book = r.book /\ input = r.input
    /\ pc = "unanalysed"
    /\ bookAnalysis = None
    /\ result = None
    /\ result2 = None
    /\ payoff = None
    /\ NoKelly /\ NoCompare /\ NoSearch /\ NoSlip /\ NoDisc
    /\ NoFetch /\ NoRoute

Analyse ==
    /\ pc = "unanalysed"
    /\ bookAnalysis' = analyzeOrderBook(book)
    /\ pc' = "start"
    /\ UNCHANGED <<pricerVars, kellyVars, compareVars, searchVars, slipVars, discVars,
                   fetchVars, routeVars>>

NextGuards == Analyse \/ Price \/ PriceAgain \/ Payoff

SpecGuards == InitGuards /\ [][NextGuards]_vars

Analysed == pc # "unanalysed"
Priced == pc \in {"priced", "repriced", "paid"}
BookLevels == Len(book.bids) + Len(book.asks)
BookDepthTotal == Depth(book.bids) + Depth(book.asks)
BestOfSide == SideLevels(book, input.side)[1].price

(* C24: the guarded divisions give 0 on a zero denominator -- averagePrice
   when nothing was filled, slippagePercent when the best price is 0,
   depthImbalance when the book has no depth, spreadPercent when the
   midpoint is 0, averageLevelSize when the book has no levels, and both
   returns when totalCost is 0 -- and depthImbalance otherwise lies in
   [-1, 1]. *)
C24_GuardedDivisions ==
    /\ Analysed =>
          /\ BookDepthTotal = 0 => bookAnalysis.depthImbalance = Zero
          /\ BookDepthTotal # 0 =>
                 /\ RLe(R(-1), bookAnalysis.depthImbalance)
                 /\ RLe(bookAnalysis.depthImbalance, One)
                 /\ bookAnalysis.depthImbalance =
                        Rat(Depth(book.bids) - Depth(book.asks), BookDepthTotal)
          /\ bookAnalysis.midpoint = Zero => bookAnalysis.spreadPercent = Zero
          /\ BookLevels = 0 => bookAnalysis.averageLevelSize = Zero
    /\ Priced =>
          /\ result.filledSize = 0 => result.averagePrice = Zero
          /\ (Len(SideLevels(book, input.side)) > 0 /\ input.size > 0 /\ BestOfSide = Zero)
                 => result.slippagePercent = Zero
    /\ pc = "paid" =>
          (result.totalCost = Zero => payoff.returnIfYes = Zero /\ payoff.returnIfNo = Zero)

\* a book with bid and ask at price 0 (midpoint 0), priced with a fill
\* that cost nothing
C24_Witness ==
    /\ pc = "paid"
    /\ bookAnalysis.midpoint = Zero
    /\ BookDepthTotal > 0
    /\ result.filledSize > 0
    /\ result.totalCost = Zero
    /\ BestOfSide = Zero
    /\ payoff.returnIfYes = Zero

----------------------------------------------------------------------------
(* analyzeMarketEfficiency *)

EfficiencyLow == Rat(98, 100)
EfficiencyHigh == Rat(102, 100)

\* the first branch taken for a sum at the lower limit as well
underpriced_Inclusive(sum) == RLe(sum, EfficiencyLow)

underpriced(sum) == RLt(sum, EfficiencyLow)

analyzeMarketEfficiency(market, size) ==
    LET execYes == calculateExecutionPrice(market.yes, BuyInput("YES", size))
        execNo == calculateExecutionPrice(market.no, BuyInput("NO", size))
        sum == RAdd(execYes.averagePrice, execNo.averagePrice)
        vigorish == RMul(RSub(sum, One), Hundred)
        outcome == IF underpriced(sum)
                   THEN [signal |-> "underpriced", isEfficient |-> FALSE]
                   ELSE IF RLt(EfficiencyHigh, sum)
                   THEN [signal |-> "overpriced", isEfficient |-> TRUE]
                   ELSE [signal |-> "efficient", isEfficient |-> TRUE]
    IN  [ yesPrice    |-> execYes.averagePrice,
          noPrice     |-> execNo.averagePrice,
          sum         |-> sum,
          vigorish    |-> vigorish,
          isEfficient |-> outcome.isEfficient,
          signal      |-> outcome.signal ]

----------------------------------------------------------------------------
(* The route handlers POST /api/simulate-trade and POST /api/compare-markets *)

\* a field of the JSON body: None when absent, <<v>> when present
truthyText(field) == Given(field) /\ ValueOf(field) # ""
truthyNumber(field) == Given(field) /\ ValueOf(field) # 0

\* body.tradeSize || 100
DefaultTradeSize == 100
tradeSizeOf(body) ==
    IF truthyNumber(body.tradeSize) THEN ValueOf(body.tradeSize) ELSE DefaultTradeSize

\* sizes a body can carry: absent, 0, negative, positive
BodySizes == {None, <<0>>, <<-1>>} \cup {<<n>> : n \in 1 .. MaxCompareSize}
BodyIds == {None, <<"">>, <<"m">>}

AskAt58 == [bids |-> <<>>, asks |-> << Lvl(58, 100, 1) >>]
AskAt62 == [bids |-> <<>>, asks |-> << Lvl(62, 100, 1) >>]

\* what fetchMarketOrderBooks can hand to a handler
RouteMarkets ==
    { Market(TightLow, TightHigh),       \* 0.40 + 0.60
      Market(TightLow, AskLow),          \* 0.40 + 0.40
      Market(AskHigh, TightHigh),        \* 0.60 + 0.60
      Market(AskLow, AskAt58),           \* 0.40 + 0.58, the lower limit
      Market(AskLow, AskAt62),           \* 0.40 + 0.62, the upper limit
      Market(AskAboveOne, AskPenny),     \* 1.02 + 0.01
      Market(EmptyBook, TightHigh) }     \* no YES asks

SimulateBodies ==
    [ marketId : {None, <<"m">>},
      side     : {None, <<"BUY">>, <<"SELL">>},
      outcome  : {None, <<"YES">>, <<"NO">>},
      size     : BodySizes ]

CompareBodies == [marketIdA : BodyIds, marketIdB : BodyIds, tradeSize : BodySizes]

\* calls lists the calls of the core with the trade size handed to each;
\* fetches counts the calls of fetchMarketOrderBooks
Answer(status, fetches, calls, data) ==
    [status |-> status, fetches |-> fetches, calls |-> calls, data |-> data]

CoreCall(fn, size) == [fn |-> fn, size |-> size]

InitRoute ==
    /\ \/ pc = "simulate" /\ request \in SimulateBodies
       \/ pc = "compare-markets" /\ request \in CompareBodies
    /\ response = None
    /\ fetched = None
    /\ payload = None
    /\ NoPricer /\ NoKelly /\ NoCompare /\ NoSearch /\ NoSlip /\ NoDisc /\ NoAnalyze

OtherThanRoute ==
    <<pricerVars, kellyVars, compareVars, searchVars, slipVars, discVars, analyzeVars,
      payload>>

\* route.ts:25-37: the two 400 answers
SimulateValidate ==
    /\ pc = "simulate"
    /\ IF ~truthyText(request.marketId) \/ ~truthyText(request.side)
          \/ ~truthyText(request.outcome) \/ ~truthyNumber(request.size)
       THEN response' = Answer(400, 0, <<>>, None) /\ pc' = "answered"
       ELSE IF ValueOf(request.size) <= 0
       THEN response' = Answer(400, 0, <<>>, None) /\ pc' = "answered"
       ELSE response' = response /\ pc' = "simulateFetch"
    /\ UNCHANGED <<request, fetched, OtherThanRoute>>

\* the awaited fetch: the books, or an error caught as a 500
SimulateFetch ==
    /\ pc = "simulateFetch"
    /\ \/ /\ fetched' \in RouteMarkets
          /\ response' = response
          /\ pc' = "simulateCompute"
       \/ /\ fetched' = Thrown
          /\ response' = Answer(500, 1, <<>>, None)
          /\ pc' = "answered"
    /\ UNCHANGED <<request, OtherThanRoute>>

SimulateCompute ==
    /\ pc = "simulateCompute"
    /\ LET orderBook == IF ValueOf(request.outcome) = "YES" THEN fetched.yes ELSE fetched.no
           tradeInput == [ side    |-> ValueOf(request.side),
                           outcome |-> ValueOf(request.outcome),
                           size    |-> ValueOf(request.size) ]
           execution == calculateExecutionPrice(orderBook, tradeInput)
       IN  response' = Answer(200, 1,
                              << CoreCall("calculateExecutionPrice", tradeInput.size) >>,
                              [execution |-> execution, payoff |-> calculatePayoff(execution)])
    /\ pc' = "answered"
    /\ UNCHANGED <<request, fetched, OtherThanRoute>>

\* part_002:22-27
CompareValidate ==
    /\ pc = "compare-markets"
    /\ IF ~truthyText(request.marketIdA) \/ ~truthyText(request.marketIdB)
       THEN response' = Answer(400, 0, <<>>, None) /\ pc' = "answered"
       ELSE response' = response /\ pc' = "compareFetch"
    /\ UNCHANGED <<request, fetched, OtherThanRoute>>

\* Promise.all of the two fetches: both markets, or an error caught as a 500
CompareFetch ==
    /\ pc = "compareFetch"
    /\ \/ /\ fetched' \in RouteMarkets \X RouteMarkets
          /\ response' = response
          /\ pc' = "compareCompute"
       \/ /\ fetched' = Thrown
          /\ response' = Answer(500, 2, <<>>, None)
          /\ pc' = "answered"
    /\ UNCHANGED <<request, OtherThanRoute>>

CompareCompute ==
    /\ pc = "compareCompute"
    /\ LET size == tradeSizeOf(request)
       IN  response' = Answer(200, 2,
                              << CoreCall("compareMarkets", size),
                                 CoreCall("analyzeMarketEfficiency", size),
                                 CoreCall("analyzeMarketEfficiency", size) >>,
                              [ tradeSize   |-> size,
                                comparison  |-> compareMarkets(fetched[1], fetched[2], size),
                                efficiencyA |-> analyzeMarketEfficiency(fetched[1], size),
                                efficiencyB |-> analyzeMarketEfficiency(fetched[2], size) ])
    /\ pc' = "answered"
    /\ UNCHANGED <<request, fetched, OtherThanRoute>>

NextRoute ==
    \/ SimulateValidate
    \/ SimulateFetch
    \/ SimulateCompute
    \/ CompareValidate
    \/ CompareFetch
    \/ CompareCompute

SpecRoute == InitRoute /\ [][NextRoute]_vars

CompareAnswered ==
    pc = "answered" /\ "marketIdA" \in DOMAIN request /\ response.status = 200

\* the sum of the BUY YES and BUY NO average prices of a fetched market
RouteSum(market) ==
    RAdd(calculateExecutionPrice(market.yes, BuyInput("YES", response.data.tradeSize)).averagePrice,
         calculateExecutionPrice(market.no, BuyInput("NO", response.data.tradeSize)).averagePrice)

EfficiencyAsClaimed(efficiency, sum) ==
    /\ efficiency.sum = sum
    /\ RLt(sum, Rat(98, 100)) => efficiency.signal = "underpriced" /\ ~efficiency.isEfficient
    /\ RLt(Rat(102, 100), sum) => efficiency.signal = "overpriced" /\ efficiency.isEfficient
    /\ (RLe(Rat(98, 100), sum) /\ RLe(sum, Rat(102, 100)))
           => efficiency.signal = "efficient" /\ efficiency.isEfficient

(* C25: analyzeMarketEfficiency answers underpriced with isEfficient false
   for a sum below 0.98, overpriced with isEfficient true for a sum above
   1.02 and efficient with isEfficient true in between; and isEfficient is
   false exactly when compareMarkets at the same trade size counts that
   market's sum as a same-market arbitrage: market A is the one it reports
   exactly when A is not efficient, and when A is efficient it reports
   market B exactly when B is not efficient. *)
C25_EfficiencySignal ==
    CompareAnswered =>
        LET data == response.data
        IN  /\ EfficiencyAsClaimed(data.efficiencyA, RouteSum(fetched[1]))
            /\ EfficiencyAsClaimed(data.efficiencyB, RouteSum(fetched[2]))
            /\ ~data.efficiencyA.isEfficient
                   <=> (data.comparison.apparentArbitrage /\ data.comparison.arbitrageDetails = "A")
            /\ data.efficiencyA.isEfficient =>
                   (~data.efficiencyB.isEfficient
                        <=> (data.comparison.apparentArbitrage
                                /\ data.comparison.arbitrageDetails = "B"))
            /\ ~data.efficiencyB.isEfficient => data.comparison.apparentArbitrage
            /\ ~data.efficiencyB.isEfficient
                   <=> sameMarketArbitrage(data.efficiencyB.sum, data.efficiencyB.sum).hasArbitrage

\* an underpriced market next to one at the lower limit and, in another
\* answer, an overpriced one
C25_Witness ==
    /\ CompareAnswered
    /\ response.data.tradeSize = 1
    /\ response.data.efficiencyA.signal = "underpriced"
    /\ response.data.efficiencyB.sum = Rat(98, 100)
    /\ response.data.efficiencyB.signal = "efficient"
    /\ response.data.comparison.arbitrageDetails = "A"

Answered == pc = "answered"
SimulateRequest == "marketId" \in DOMAIN request
SimulateIncomplete ==
    \/ ~Given(request.marketId) \/ ~Given(request.side)
    \/ ~Given(request.outcome) \/ ~Given(request.size)

\* 400 for a missing field or a size <= 0, before any fetch or pricing
SimulateRejectsBadSize ==
    (Answered /\ SimulateRequest) =>
        /\ (SimulateIncomplete \/ ValueOf(request.size) <= 0) =>
               /\ response.status = 400
               /\ response.fetches = 0
               /\ response.calls = <<>>
        /\ \A i \in 1 .. Len(response.calls) : response.calls[i].size > 0

\* only a tradeSize > 0 reaches compareMarkets and analyzeMarketEfficiency,
\* 100 when the body has none
CompareHandsPositiveSize ==
    (Answered /\ ~SimulateRequest) =>
        /\ \A i \in 1 .. Len(response.calls) : response.calls[i].size > 0
        /\ (response.status = 200 /\ ~Given(request.tradeSize)) =>
               \A i \in 1 .. Len(response.calls) : response.calls[i].size = 100

(* C28: the handlers never call the core with a trade size that is not
   positive: POST /api/simulate-trade answers 400 for a missing field or a
   size <= 0 before any fetch or pricing, and POST /api/compare-markets
   hands only a tradeSize > 0 to compareMarkets and analyzeMarketEfficiency
   (100 when the body has none), whatever the request body. *)
C28_PositiveTradeSizeOnly == SimulateRejectsBadSize /\ CompareHandsPositiveSize

====
